---- MODULE Spec2Model ----
(***************************************************************************)
(* Model of the meander-migration analysis core:                           *)
(*   src/src/meander_analysis.py  (calculate_curvature)                    *)
(*   src/src/lme_model.py         (fit_lme_model, interpret_results)       *)
(*                                                                         *)
(* Numbers.  Centerline coordinates are integers (grid units), so every    *)
(* squared distance and every cross product is an integer.  A curvature    *)
(* value 4*area/denom is kept exactly, as the reduced fraction n/d of its  *)
(* square: (4*area)^2 / denom^2 = 4*cross^2 / (d12^2 * d23^2 * d31^2).     *)
(* Two non-negative values are equal iff these reduced fractions are.      *)
(* Coefficients are integers; p-values are integers in units of 1/1000.    *)
(***************************************************************************)
EXTENDS Integers, Sequences, FiniteSets, TLC

VARIABLES
    positions,       \* calculate_curvature: the N x 2 input array
    window_size,     \* calculate_curvature: the window_size argument
    curv_pc,         \* "ready" | "returned" | "raised"
    curvatures,      \* calculate_curvature: the returned array (<<>> before return)
    curv_error,      \* the exception class raised, "" when none
    data,            \* fit_lme_model: the data argument (its columns)
    formula_arg,     \* fit_lme_model: the formula argument (NoFormula for None)
    formula,         \* fit_lme_model: the local variable formula
    fit_pc,          \* "idle" | "entry" | "try" | "except" | "returned" | "raised"
    primary_outcome, \* what the mixed-effects attempt did, "" before it ran
    ols_outcome,     \* what the OLS attempt did, "" when it did not run
    fit_caught,      \* the exception e bound by the except clause, "" when none
    fit_log,         \* the lines printed by fit_lme_model
    result,          \* the fitted result returned (NoResult before return)
    fit_summary,     \* the summary_df returned (NoSummary before return)
    fit_raised,      \* the exception that left fit_lme_model, "" when none
    summary_df,      \* interpret_results: the summary argument, row name -> row
    interp_pc,       \* "idle" | "ready" | "returned"
    interpretation,  \* interpret_results: the returned dict, key -> value
    regulated_rates,   \* calculate_geomorphic_dormancy_index: first argument
    unregulated_rates, \* calculate_geomorphic_dormancy_index: second argument
    dorm_pc,           \* "idle" | "ready" | "returned"
    dormancy_index,    \* the value returned (NoValue before return)
    positions_t1,    \* calculate_migration_rate: positions at time 1
    positions_t2,    \* calculate_migration_rate: positions at time 2
    time_delta,      \* calculate_migration_rate: the time_delta argument
    mig_pc,          \* "idle" | "ready" | "returned" | "raised"
    migration_rates, \* calculate_migration_rate: the returned array
    mig_error,       \* the exception raised (NoError when none)
    an_curvatures,   \* analyze_migration_template: the curvatures argument
    an_rates,        \* analyze_migration_template: the migration_rates argument
    bin_count,       \* analyze_migration_template: the bin_count argument
    an_pc,           \* "idle" | "ready" | "returned" | "raised"
    template,        \* the returned (bin_centers, mean_rates, std_rates)
    an_error,        \* the exception class raised, "" when none
    regulated_curvatures,   \* compare_regulated_unregulated: first argument
    cmp_regulated_rates,    \* compare_regulated_unregulated: regulated_rates
    unregulated_curvatures, \* compare_regulated_unregulated: third argument
    cmp_unregulated_rates,  \* compare_regulated_unregulated: unregulated_rates
    cmp_bin_count,          \* compare_regulated_unregulated: bin_count
    cmp_pc,                 \* "idle" | "ready" | "returned" | "raised"
    comparison,             \* the returned dict (NoComparison before return)
    cmp_error,              \* the exception class raised, "" when none
    prep_curvatures,   \* prepare_lme_data: the curvatures argument
    prep_rates,        \* prepare_lme_data: the migration_rates argument
    regulation_status, \* prepare_lme_data: the regulation_status argument
    reach_ids,         \* prepare_lme_data: reach_ids (None for None)
    time_periods,      \* prepare_lme_data: time_periods (None for None)
    prep_pc,           \* "idle" | "ready" | "returned" | "raised"
    prep_df,           \* the returned DataFrame df, a sequence of rows
    prep_error,        \* the exception class raised, "" when none
    rng_state,         \* the state of numpy's global generator np.random
    gen_args,          \* generate_migration_data: the arguments of the call
    gen_pc,            \* "idle" | "ready" | "returned" | "raised"
    gen_result,        \* generate_migration_data: the returned dict
    gen_error,         \* the exception class raised, "" when none
    channel_args,      \* generate_synthetic_channel: the arguments of the call
    channel_result,    \* generate_synthetic_channel: the returned positions
    last_call,         \* "" | "generate" | "channel" | "draw", and whether
                       \* the same call was made before: [kind, repeated]
    first_generated,   \* observer: arguments -> result of the first such call
    first_channel      \* observer: arguments -> result of the first such call

curv_vars == <<positions, window_size, curv_pc, curvatures, curv_error>>

fit_vars == <<data, formula_arg, formula, fit_pc, primary_outcome, ols_outcome,
              fit_caught, fit_log, result, fit_summary, fit_raised>>

interp_vars == <<summary_df, interp_pc, interpretation>>

dorm_vars == <<regulated_rates, unregulated_rates, dorm_pc, dormancy_index>>

mig_vars == <<positions_t1, positions_t2, time_delta, mig_pc, migration_rates,
              mig_error>>

an_vars == <<an_curvatures, an_rates, bin_count, an_pc, template, an_error>>

prep_vars == <<prep_curvatures, prep_rates, regulation_status, reach_ids,
               time_periods, prep_pc, prep_df, prep_error>>

gen_vars == <<rng_state, gen_args, gen_pc, gen_result, gen_error, channel_args,
              channel_result, last_call, first_generated, first_channel>>

cmp_vars == <<regulated_curvatures, cmp_regulated_rates, unregulated_curvatures,
              cmp_unregulated_rates, cmp_bin_count, cmp_pc, comparison,
              cmp_error>>

----------------------------------------------------------------------------
(* Bounds *)

MaxPoints == 5
MaxWindow == 5
MaxX == 2
MaxY == 1
MaxCoef == 1
MaxRate == 2
MaxRateCount == 3
MaxMigPoints == 2
MaxTime == 2
MaxPairs == 3
MaxCurv == 2
MaxBins == 3
MaxCmpPairs == 4
MaxSlope == 2
MaxOffset == 1
MaxRows == 2
RngModulus == 5
MaxReaches == 11
MaxPointsPerReach == 2

----------------------------------------------------------------------------
(* Python / numpy primitives *)

\* Python's // on integers: floor division, also for a negative dividend.
FloorDiv(a, b) == IF a >= 0 THEN a \div b ELSE -((-a + b - 1) \div b)

Abs(x) == IF x < 0 THEN -x ELSE x

RECURSIVE Gcd(_, _)
Gcd(a, b) == IF b = 0 THEN a ELSE Gcd(b, a % b)

\* a[k] for a Python index k (0-based, negative counts from the end).
PyIndex(a, k) == IF k < 0 THEN a[Len(a) + k + 1] ELSE a[k + 1]

\* Normalised bound of a Python slice on a sequence of length n.
PyBound(n, k) == IF k < 0 THEN (IF n + k < 0 THEN 0 ELSE n + k)
                 ELSE (IF k > n THEN n ELSE k)

\* a[lo:hi]
PySlice(a, lo, hi) ==
    LET n == Len(a)
        l == PyBound(n, lo)
        u == PyBound(n, hi)
    IN  IF u <= l THEN <<>> ELSE [k \in 1..(u - l) |-> a[l + k]]

\* a[lo:hi] = v   (scalar broadcast into a slice)
PySliceAssign(a, lo, hi, v) ==
    LET n == Len(a)
        l == PyBound(n, lo)
        u == PyBound(n, hi)
    IN  [k \in 1..n |-> IF l < k /\ k <= u THEN v ELSE a[k]]

----------------------------------------------------------------------------
(* calculate_curvature *)

\* The exact value of a non-negative real whose square is num/den.
Frac(num, den) ==
    IF num = 0 THEN [n |-> 0, d |-> 1]
    ELSE LET g == Gcd(num, den) IN [n |-> num \div g, d |-> den \div g]

Zero == Frac(0, 1)

\* |p - q|^2
DistSq(p, q) == (p[1] - q[1]) * (p[1] - q[1]) + (p[2] - q[2]) * (p[2] - q[2])

\* denom^2, denom = norm(p1 - p2) * norm(p2 - p3) * norm(p3 - p1)
DenomSq(p1, p2, p3) == DistSq(p1, p2) * DistSq(p2, p3) * DistSq(p3, p1)

\* Mutant: the dot product of the two edge vectors instead of their cross
\* product.
TwiceArea_Dot(p1, p2, p3) ==
    Abs((p2[1] - p1[1]) * (p3[1] - p1[1]) + (p2[2] - p1[2]) * (p3[2] - p1[2]))

\* 2 * area = |(p2x - p1x)(p3y - p1y) - (p3x - p1x)(p2y - p1y)|
TwiceArea(p1, p2, p3) ==
    Abs((p2[1] - p1[1]) * (p3[2] - p1[2]) - (p3[1] - p1[1]) * (p2[2] - p1[2]))

\* denom > 1e-10.  denom^2 is a natural number, so denom is 0 or at least 1.
DenomAboveEps(p1, p2, p3) == DenomSq(p1, p2, p3) > 0

\* 4 * area / denom, or 0 when denom is not above the epsilon.
Menger(p1, p2, p3) ==
    IF DenomAboveEps(p1, p2, p3)
    THEN Frac(4 * TwiceArea(p1, p2, p3) * TwiceArea(p1, p2, p3), DenomSq(p1, p2, p3))
    ELSE Zero

\* Body of the loop for the 0-based index i.
CurvatureAt(pos, w, i) ==
    LET h               == FloorDiv(w, 2)
        local_positions == PySlice(pos, i - h, i + h + 1)
        p1              == PyIndex(local_positions, 0)
        p2              == PyIndex(local_positions, h)
        p3              == PyIndex(local_positions, -1)
    IN  IF w >= 3 THEN Menger(p1, p2, p3) ELSE Zero

\* curvatures after the loop: np.zeros(N) with the indices of
\* range(w // 2, N - w // 2) overwritten.
CurvatureLoop(pos, w) ==
    LET n == Len(pos)
        h == FloorDiv(w, 2)
    IN  [k \in 1..n |-> IF h <= k - 1 /\ k - 1 < n - h
                        THEN CurvatureAt(pos, w, k - 1)
                        ELSE Zero]

\* curvatures[:window_size // 2] = curvatures[window_size // 2]
FillLeftEdge(c, w) ==
    PySliceAssign(c, 0, FloorDiv(w, 2), PyIndex(c, FloorDiv(w, 2)))

\* curvatures[-window_size // 2:] = curvatures[-window_size // 2 - 1]
\* (unary minus binds tighter than //: the offset is (-window_size) // 2)
FillRightEdge(c, w) ==
    PySliceAssign(c, FloorDiv(-w, 2), Len(c), PyIndex(c, FloorDiv(-w, 2) - 1))

calculate_curvature(pos, w) ==
    FillRightEdge(FillLeftEdge(CurvatureLoop(pos, w), w), w)

Points == (0..MaxX) \X (0..MaxY)

PositionArrays == UNION {[1..n -> Points] : n \in 1..MaxPoints}

WindowSizes == 3..MaxWindow

CurvatureIdle ==
    /\ positions = <<>>
    /\ window_size = 0
    /\ curv_pc = "idle"
    /\ curvatures = <<>>
    /\ curv_error = ""

InitCurvature ==
    /\ positions \in PositionArrays
    /\ window_size \in WindowSizes
    /\ curv_pc = "ready"
    /\ curvatures = <<>>
    /\ curv_error = ""

\* Mutant: an array of exactly window_size points is rejected too.
TooFewPoints_Inclusive(pos, w) == Len(pos) <= w

\* if len(positions) < window_size:
TooFewPoints(pos, w) == Len(pos) < w

CalculateCurvature ==
    /\ curv_pc = "ready"
    /\ IF TooFewPoints(positions, window_size)
       THEN /\ curv_pc' = "raised"
            /\ curv_error' = "ValueError"
            /\ curvatures' = curvatures
       ELSE /\ curv_pc' = "returned"
            /\ curv_error' = curv_error
            /\ curvatures' = calculate_curvature(positions, window_size)
    /\ UNCHANGED <<positions, window_size>>

----------------------------------------------------------------------------
(* fit_lme_model *)

\* A formula "lhs ~ t1 + t2 + ..." is kept as its response and its terms.
NoFormula == [lhs |-> "", rhs |-> <<>>]

DefaultFormula ==
    [lhs |-> "migration_rate",
     rhs |-> <<"curvature", "regulated", "curvature_x_regulated">>]

Range(seq) == {seq[k] : k \in 1..Len(seq)}

\* The names a formula refers to in the data.
FormulaNames(f) == {f.lhs} \cup Range(f.rhs)

\* Columns of the table built by prepare_lme_data.
PreparedColumns ==
    {"curvature", "migration_rate", "regulated", "reach_id", "time_period",
     "curvature_x_regulated"}

DataFrames ==
    {[columns |-> PreparedColumns \ missing] :
        missing \in SUBSET {"reach_id", "curvature_x_regulated"}}

CustomFormulas ==
    {[lhs |-> "migration_rate", rhs |-> r] :
        r \in {<<"curvature">>, <<"regulated">>, <<"curvature_x_regulated">>,
               <<"curvature", "regulated">>,
               <<"curvature", "curvature_x_regulated">>,
               <<"regulated", "curvature_x_regulated">>,
               <<"curvature", "regulated", "curvature_x_regulated">>}}

\* Exceptions the statsmodels fitting routines raise on data they cannot fit.
FitErrors == {"LinAlgError", "ValueError"}

NoResult == [model |-> "none", converged |-> FALSE, exog_names |-> <<>>]
NoSummary == [index |-> <<>>, columns |-> <<>>]

\* smf.mixedlm(formula, data, groups=data["reach_id"], re_formula="1").fit():
\* the outcomes of the try block up to the fit.  data["reach_id"] is
\* evaluated first, then the formula is resolved against the data, then the
\* optimiser runs: it raises, or returns a result that converged or did not
\* (a ConvergenceWarning is a warning, not an exception).
PrimaryOutcomes(d, f) ==
    IF "reach_id" \notin d.columns THEN {"KeyError"}
    ELSE IF ~(FormulaNames(f) \subseteq d.columns) THEN {"PatsyError"}
    ELSE {"converged", "not_converged"} \cup FitErrors

\* The mixed-effects result: fixed effects are the intercept and the terms
\* of the formula; params also carries the random-intercept variance.
MixedLMResult(f, outcome) ==
    [model |-> "MixedLM",
     converged |-> (outcome = "converged"),
     exog_names |-> <<"Intercept">> \o f.rhs]

MixedLMParams(res) == res.exog_names \o <<"Group Var">>

\* X = data[['curvature', 'regulated', 'curvature_x_regulated']]
FallbackColumns == <<"curvature", "regulated", "curvature_x_regulated">>

\* sm.add_constant(X): prepends the column "const".
AddConstant(cols) == <<"const">> \o cols

\* The outcomes of selecting the design matrix and fitting sm.OLS(y, X).
OLSOutcomes(d) ==
    IF ~(Range(FallbackColumns) \subseteq d.columns) THEN {"KeyError"}
    ELSE IF "migration_rate" \notin d.columns THEN {"KeyError"}
    ELSE {"ok"} \cup FitErrors

OLSResult ==
    [model |-> "OLS", converged |-> TRUE, exog_names |-> AddConstant(FallbackColumns)]

OLSParams(res) == res.exog_names

\* pd.DataFrame({'coefficient': params, 'std_error': bse,
\*               'z_value': tvalues, 'p_value': pvalues})
SummaryFrame(params) ==
    [index |-> params,
     columns |-> <<"coefficient", "std_error", "z_value", "p_value">>]

\* Mutant: the except clause swallows the failure without printing it.
PrintFailure_Silent(log, e) == log

\* print(f"Error fitting model: {e}"); print("Attempting simplified model ...")
PrintFailure(log, e) ==
    log \o <<[text |-> "Error fitting model", e |-> e],
             [text |-> "Attempting simplified model without random effects...",
              e |-> ""]>>

\* Mutant: the clause catches the fitting errors only.
CaughtByExcept_FitErrorsOnly(e) == e \in FitErrors

\* except Exception as e: the errors the clause catches.
CaughtByExcept(e) == e \in FitErrors \cup {"KeyError", "PatsyError"}

FitIdle ==
    /\ data = [columns |-> {}]
    /\ formula_arg = NoFormula
    /\ formula = NoFormula
    /\ fit_pc = "idle"
    /\ primary_outcome = ""
    /\ ols_outcome = ""
    /\ fit_caught = ""
    /\ fit_log = <<>>
    /\ result = NoResult
    /\ fit_summary = NoSummary
    /\ fit_raised = ""

InitFit ==
    /\ data \in DataFrames
    /\ formula_arg \in {NoFormula} \cup CustomFormulas
    /\ formula = formula_arg
    /\ fit_pc = "entry"
    /\ primary_outcome = ""
    /\ ols_outcome = ""
    /\ fit_caught = ""
    /\ fit_log = <<>>
    /\ result = NoResult
    /\ fit_summary = NoSummary
    /\ fit_raised = ""

\* if formula is None: formula = "migration_rate ~ curvature + regulated + ..."
FitDefaultFormula ==
    /\ fit_pc = "entry"
    /\ formula' = IF formula = NoFormula THEN DefaultFormula ELSE formula
    /\ fit_pc' = "try"
    /\ UNCHANGED <<data, formula_arg, primary_outcome, ols_outcome, fit_caught,
                   fit_log, result, fit_summary, fit_raised>>

\* The try block: fit the mixed-effects model and return it with its summary,
\* or enter the except clause with the exception raised.
FitPrimary ==
    /\ fit_pc = "try"
    /\ \E outcome \in PrimaryOutcomes(data, formula) :
          /\ primary_outcome' = outcome
          /\ IF outcome \in {"converged", "not_converged"}
             THEN /\ result' = MixedLMResult(formula, outcome)
                  /\ fit_summary' = SummaryFrame(MixedLMParams(result'))
                  /\ fit_pc' = "returned"
                  /\ UNCHANGED <<fit_caught, fit_raised>>
             ELSE IF CaughtByExcept(outcome)
             THEN /\ fit_caught' = outcome
                  /\ fit_pc' = "except"
                  /\ UNCHANGED <<result, fit_summary, fit_raised>>
             ELSE /\ fit_raised' = outcome
                  /\ fit_pc' = "raised"
                  /\ UNCHANGED <<result, fit_summary, fit_caught>>
    /\ UNCHANGED <<data, formula_arg, formula, ols_outcome, fit_log>>

\* The except clause: print the failure, refit by OLS on the three fixed
\* columns and return it with its summary; an exception raised here leaves
\* the function as it is.
FitFallback ==
    /\ fit_pc = "except"
    /\ fit_log' = PrintFailure(fit_log, fit_caught)
    /\ \E outcome \in OLSOutcomes(data) :
          /\ ols_outcome' = outcome
          /\ IF outcome = "ok"
             THEN /\ result' = OLSResult
                  /\ fit_summary' = SummaryFrame(OLSParams(result'))
                  /\ fit_pc' = "returned"
                  /\ UNCHANGED fit_raised
             ELSE /\ fit_raised' = outcome
                  /\ fit_pc' = "raised"
                  /\ UNCHANGED <<result, fit_summary>>
    /\ UNCHANGED <<data, formula_arg, formula, primary_outcome, fit_caught>>

----------------------------------------------------------------------------
(* interpret_results *)

\* Not-a-number, a value outside the range of every coefficient and p-value.
NaN == 9999

\* The significance threshold 0.05, in units of 1/1000.
Alpha == 50

\* Python's comparisons on floats: every ordering comparison with a NaN is
\* False, != with a NaN is True.
Lt(a, b) == a # NaN /\ b # NaN /\ a < b
Gt(a, b) == a # NaN /\ b # NaN /\ a > b
Ne(a, b) == a = NaN \/ b = NaN \/ a # b

Coefficients == (-MaxCoef)..MaxCoef

PValues == {0, Alpha - 1, Alpha, Alpha + 1, 1000}

\* A row of the summary, by the two columns interpret_results reads; a
\* degenerate fit reports NaN in both.
SummaryRows ==
    [coefficient : Coefficients, p_value : PValues]
        \cup {[coefficient |-> NaN, p_value |-> NaN]}

HypothesisRows == {"regulated", "curvature_x_regulated", "curvature"}

Summaries == UNION {[present -> SummaryRows] : present \in SUBSET HypothesisRows}

EmptyDict == [k \in {} |-> FALSE]

\* Mutant: the p-value test is <= 0.05.
RatesSuppressed_Inclusive(row) == Lt(row.coefficient, 0) /\ ~Gt(row.p_value, Alpha)

\* (reg_coef < 0) and (reg_pval < 0.05)
RatesSuppressed(row) == Lt(row.coefficient, 0) /\ Lt(row.p_value, Alpha)

\* Mutant: the p-value test is >= 0.05.
TemplateInvariant_Inclusive(row) == row.p_value # NaN /\ row.p_value >= Alpha

\* (interaction_pval > 0.05)
TemplateInvariant(row) == Gt(row.p_value, Alpha)

\* Mutant: only a positive coefficient counts.
CurvaturePredictsMigration_Positive(row) ==
    Gt(row.coefficient, 0) /\ Lt(row.p_value, Alpha)

\* (curv_coef != 0) and (curv_pval < 0.05)
CurvaturePredictsMigration(row) == Ne(row.coefficient, 0) /\ Lt(row.p_value, Alpha)

\* Mutant: the suppression keys are written even when the row is absent.
SuppressionEntries_Always(df) ==
    IF "regulated" \in DOMAIN df
    THEN ("rates_suppressed" :> RatesSuppressed(df["regulated"]))
         @@ ("suppression_coefficient" :> df["regulated"].coefficient)
         @@ ("suppression_pvalue" :> df["regulated"].p_value)
    ELSE ("rates_suppressed" :> FALSE)
         @@ ("suppression_coefficient" :> NaN)
         @@ ("suppression_pvalue" :> NaN)

\* if 'regulated' in summary_df.index: ...
SuppressionEntries(df) ==
    IF "regulated" \in DOMAIN df
    THEN ("rates_suppressed" :> RatesSuppressed(df["regulated"]))
         @@ ("suppression_coefficient" :> df["regulated"].coefficient)
         @@ ("suppression_pvalue" :> df["regulated"].p_value)
    ELSE EmptyDict

\* Mutant: the template counts as invariant only when the rates are not
\* suppressed according to the row 'regulated'.
InvarianceEntries_LooksAtRegulated(df) ==
    IF "curvature_x_regulated" \in DOMAIN df
    THEN ("template_invariant" :>
             (TemplateInvariant(df["curvature_x_regulated"])
                /\ ("regulated" \in DOMAIN df => ~RatesSuppressed(df["regulated"]))))
         @@ ("interaction_coefficient" :> df["curvature_x_regulated"].coefficient)
         @@ ("interaction_pvalue" :> df["curvature_x_regulated"].p_value)
    ELSE EmptyDict

\* if 'curvature_x_regulated' in summary_df.index: ...
InvarianceEntries(df) ==
    IF "curvature_x_regulated" \in DOMAIN df
    THEN ("template_invariant" :> TemplateInvariant(df["curvature_x_regulated"]))
         @@ ("interaction_coefficient" :> df["curvature_x_regulated"].coefficient)
         @@ ("interaction_pvalue" :> df["curvature_x_regulated"].p_value)
    ELSE EmptyDict

\* if 'curvature' in summary_df.index: ...
CurvatureEntries(df) ==
    IF "curvature" \in DOMAIN df
    THEN ("curvature_predicts_migration" :> CurvaturePredictsMigration(df["curvature"]))
         @@ ("curvature_coefficient" :> df["curvature"].coefficient)
         @@ ("curvature_pvalue" :> df["curvature"].p_value)
    ELSE EmptyDict

interpret_results(df) ==
    SuppressionEntries(df) @@ InvarianceEntries(df) @@ CurvatureEntries(df)

InterpretIdle ==
    /\ summary_df = EmptyDict
    /\ interp_pc = "idle"
    /\ interpretation = EmptyDict

InitInterpret ==
    /\ summary_df \in Summaries
    /\ interp_pc = "ready"
    /\ interpretation = EmptyDict

InterpretResults ==
    /\ interp_pc = "ready"
    /\ interpretation' = interpret_results(summary_df)
    /\ interp_pc' = "returned"
    /\ UNCHANGED summary_df

----------------------------------------------------------------------------
(* Exact float values: a rational n/d in lowest terms with d > 0; 0/0 is   *)
(* not-a-number and 1/0, -1/0 are the infinities.                          *)

Rat(num, den) ==
    IF den = 0 THEN [n |-> (IF num > 0 THEN 1 ELSE IF num < 0 THEN -1 ELSE 0), d |-> 0]
    ELSE IF num = 0 THEN [n |-> 0, d |-> 1]
    ELSE LET g == Gcd(Abs(num), Abs(den))
             sgn == IF den < 0 THEN -1 ELSE 1
         IN  [n |-> sgn * (num \div g), d |-> sgn * (den \div g)]

NotANumber == Rat(0, 0)

IsNaN(x) == x.n = 0 /\ x.d = 0

\* a / b on floats: x/0 is an infinity, 0/0 and anything with a NaN is NaN.
FloatDiv(a, b) ==
    IF IsNaN(a) \/ IsNaN(b) THEN NotANumber
    ELSE Rat(a.n * b.d, a.d * b.n)

\* a > 0 on floats (False for a NaN).
FloatPositive(a) == ~IsNaN(a) /\ a.n > 0

----------------------------------------------------------------------------
(* calculate_geomorphic_dormancy_index *)

RECURSIVE Insert(_, _)
Insert(sorted, x) ==
    IF sorted = <<>> THEN <<x>>
    ELSE IF x <= Head(sorted) THEN <<x>> \o sorted
    ELSE <<Head(sorted)>> \o Insert(Tail(sorted), x)

RECURSIVE Sort(_)
Sort(a) == IF a = <<>> THEN <<>> ELSE Insert(Sort(Tail(a)), Head(a))

\* np.median: the middle element of the sorted array, or the mean of the
\* two middle elements when the length is even.
Median(a) ==
    LET sorted == Sort(a)
        n      == Len(a)
    IN  IF n % 2 = 1
        THEN Rat(sorted[(n + 1) \div 2], 1)
        ELSE Rat(sorted[n \div 2] + sorted[n \div 2 + 1], 2)

\* Mutant: the guard is unregulated_median >= 0.
MedianAllowsRatio_NonNegative(m) == ~IsNaN(m) /\ m.n >= 0

\* if unregulated_median > 0:
MedianAllowsRatio(m) == FloatPositive(m)

\* Mutant: the ratio is clamped to at most 1.
DormancyRatio_Clamped(regulated_median, unregulated_median) ==
    LET q == FloatDiv(regulated_median, unregulated_median)
    IN  IF q.n > q.d THEN Rat(1, 1) ELSE q

\* dormancy_index = regulated_median / unregulated_median
DormancyRatio(regulated_median, unregulated_median) ==
    FloatDiv(regulated_median, unregulated_median)

calculate_geomorphic_dormancy_index(reg, unreg) ==
    LET regulated_median   == Median(reg)
        unregulated_median == Median(unreg)
    IN  IF MedianAllowsRatio(unregulated_median)
        THEN DormancyRatio(regulated_median, unregulated_median)
        ELSE NotANumber

\* Rates in grid units; the function accepts any float array, so values
\* below zero are included.
RateValues == (-1)..MaxRate

RateArrays == UNION {[1..n -> RateValues] : n \in 1..MaxRateCount}

NoValue == [n |-> 0, d |-> -1]

DormancyIdle ==
    /\ regulated_rates = <<>>
    /\ unregulated_rates = <<>>
    /\ dorm_pc = "idle"
    /\ dormancy_index = NoValue

InitDormancy ==
    /\ regulated_rates \in RateArrays
    /\ unregulated_rates \in RateArrays
    /\ dorm_pc = "ready"
    /\ dormancy_index = NoValue

CalculateDormancyIndex ==
    /\ dorm_pc = "ready"
    /\ dormancy_index' =
          calculate_geomorphic_dormancy_index(regulated_rates, unregulated_rates)
    /\ dorm_pc' = "returned"
    /\ UNCHANGED <<regulated_rates, unregulated_rates>>

----------------------------------------------------------------------------
(* calculate_migration_rate *)

\* array.shape of an N x dim array of points.
Shape(a) == <<Len(a), Len(a[1])>>

RECURSIVE SumSqDiff(_, _, _)
SumSqDiff(p, q, k) ==
    IF k = 0 THEN 0
    ELSE (q[k] - p[k]) * (q[k] - p[k]) + SumSqDiff(p, q, k - 1)

\* np.sum((positions_t2 - positions_t1) ** 2, axis=1), for one row.
RowSumSq(p, q) == SumSqDiff(p, q, Len(p))

\* Mutant: the distance is multiplied by time_delta.
RateOf_Times(sumsq, t) == Frac(sumsq * t * t, 1)

\* sqrt(sumsq) / time_delta, kept as the fraction of its square.
RateOf(sumsq, t) == Frac(sumsq, t * t)

calculate_migration_rate(p1, p2, t) ==
    [k \in 1..Len(p1) |-> RateOf(RowSumSq(p1[k], p2[k]), t)]

\* if positions_t1.shape != positions_t2.shape:
ShapesDiffer(p1, p2) == Shape(p1) # Shape(p2)

\* Mutant: a time_delta of exactly 0 is accepted.
TimeNotPositive_Strict(t) == t < 0

\* if time_delta <= 0:
TimeNotPositive(t) == t <= 0

NoError == [class |-> "", message |-> ""]

ShapeError ==
    [class |-> "ValueError", message |-> "Position arrays must have the same shape"]

TimeError ==
    [class |-> "ValueError", message |-> "Time delta must be positive"]

Points3D == (0..1) \X (0..1) \X (0..1)

MigrationArrays ==
    UNION {[1..n -> Points] : n \in 1..MaxMigPoints} \cup [1..1 -> Points3D]

TimeDeltas == (-1)..MaxTime

MigrationIdle ==
    /\ positions_t1 = <<>>
    /\ positions_t2 = <<>>
    /\ time_delta = 0
    /\ mig_pc = "idle"
    /\ migration_rates = <<>>
    /\ mig_error = NoError

InitMigration ==
    /\ positions_t1 \in MigrationArrays
    /\ positions_t2 \in MigrationArrays
    /\ time_delta \in TimeDeltas
    /\ mig_pc = "ready"
    /\ migration_rates = <<>>
    /\ mig_error = NoError

CalculateMigrationRate ==
    /\ mig_pc = "ready"
    /\ IF ShapesDiffer(positions_t1, positions_t2)
       THEN /\ mig_pc' = "raised"
            /\ mig_error' = ShapeError
            /\ UNCHANGED migration_rates
       ELSE IF TimeNotPositive(time_delta)
       THEN /\ mig_pc' = "raised"
            /\ mig_error' = TimeError
            /\ UNCHANGED migration_rates
       ELSE /\ mig_pc' = "returned"
            /\ migration_rates' =
                  calculate_migration_rate(positions_t1, positions_t2, time_delta)
            /\ UNCHANGED mig_error
    /\ UNCHANGED <<positions_t1, positions_t2, time_delta>>

----------------------------------------------------------------------------
(* analyze_migration_template *)
(* Curvatures and rates are integers (grid units) or NaN.  Percentiles are  *)
(* kept multiplied by 100 and bin edges multiplied by 100 * bin_count, so   *)
(* that every comparison of a curvature with a bin edge is exact.           *)

\* valid_mask = ~(np.isnan(curvatures) | np.isnan(migration_rates))
ValidMask(c, r) == [k \in 1..Len(c) |-> ~(c[k] = NaN \/ r[k] = NaN)]

\* a[mask]: the elements of a whose mask entry is True, in order.
RECURSIVE MaskSelect(_, _)
MaskSelect(a, mask) ==
    IF a = <<>> THEN <<>>
    ELSE (IF Head(mask) THEN <<Head(a)>> ELSE <<>>)
         \o MaskSelect(Tail(a), Tail(mask))

\* 100 * np.percentile(a, q) for a non-empty array: linear interpolation at
\* the virtual index (n - 1) * q / 100 of the sorted array.
Percentile100(a, q) ==
    LET sorted == Sort(a)
        t      == (Len(a) - 1) * q
        lo     == t \div 100
        f      == t % 100
    IN  IF f = 0 THEN 100 * sorted[lo + 1]
        ELSE 100 * sorted[lo + 1] + f * (sorted[lo + 2] - sorted[lo + 1])

\* 100 * bins * np.linspace(p5, p95, bins + 1)[j], j = 0..bins.
BinEdges(c, bins) ==
    LET p5  == Percentile100(c, 5)
        p95 == Percentile100(c, 95)
    IN  [j \in 0..bins |-> bins * p5 + j * (p95 - p5)]

\* Mutant: the upper edge of a bin is inclusive.
InBin_Closed(x, lower, upper, bins) ==
    lower <= 100 * bins * x /\ 100 * bins * x <= upper

\* (curvatures >= curvature_bins[i]) & (curvatures < curvature_bins[i + 1])
InBin(x, lower, upper, bins) ==
    lower <= 100 * bins * x /\ 100 * bins * x < upper

RECURSIVE SeqSum(_)
SeqSum(a) == IF a = <<>> THEN 0 ELSE Head(a) + SeqSum(Tail(a))

RECURSIVE SeqSumSq(_)
SeqSumSq(a) == IF a = <<>> THEN 0 ELSE Head(a) * Head(a) + SeqSumSq(Tail(a))

\* np.mean of a non-empty array.
Mean(a) == Rat(SeqSum(a), Len(a))

\* np.std of a non-empty array (population standard deviation), kept as the
\* fraction of its square.
Std(a) == Frac(Len(a) * SeqSumSq(a) - SeqSum(a) * SeqSum(a), Len(a) * Len(a))

\* mean_rates[i]: np.zeros, overwritten if np.sum(mask) > 0.
BinMean(selected) == IF Len(selected) > 0 THEN Mean(selected) ELSE Rat(0, 1)

\* std_rates[i]: np.zeros, overwritten if np.sum(mask) > 0.
BinStd(selected) == IF Len(selected) > 0 THEN Std(selected) ELSE Zero

\* The bins of the valid pairs (c, r): centers, mean rates, std of rates.
BinnedTemplate(c, r, bins) ==
    LET edges == BinEdges(c, bins)
        mask(i) == [k \in 1..Len(c) |-> InBin(c[k], edges[i - 1], edges[i], bins)]
    IN  [bin_centers |-> [i \in 1..bins |-> Rat(edges[i - 1] + edges[i], 200 * bins)],
         mean_rates  |-> [i \in 1..bins |-> BinMean(MaskSelect(r, mask(i)))],
         std_rates   |-> [i \in 1..bins |-> BinStd(MaskSelect(r, mask(i)))]]

\* The template when no valid pair is left and the percentile of the empty
\* array is NaN: every comparison with a NaN edge is False.
EmptyTemplate(bins) ==
    [bin_centers |-> [i \in 1..bins |-> NotANumber],
     mean_rates  |-> [i \in 1..bins |-> Rat(0, 1)],
     std_rates   |-> [i \in 1..bins |-> Zero]]

NoTemplate == [bin_centers |-> <<>>, mean_rates |-> <<>>, std_rates |-> <<>>]

\* Mutant: the length check fails with the error of the empty percentile.
LengthError_Index == "IndexError"

\* raise ValueError("Curvature and migration rate arrays must have same length")
LengthError == "ValueError"

\* The outcomes of analyze_migration_template: [error, template].
\* np.percentile of an empty array raises IndexError or returns NaN,
\* depending on the numpy release.
AnalyzeOutcomes(c, r, bins) ==
    IF Len(c) # Len(r)
    THEN {[error |-> LengthError, template |-> NoTemplate]}
    ELSE LET valid == ValidMask(c, r)
             vc    == MaskSelect(c, valid)
             vr    == MaskSelect(r, valid)
         IN  IF vc = <<>>
             THEN {[error |-> "IndexError", template |-> NoTemplate],
                   [error |-> "", template |-> EmptyTemplate(bins)]}
             ELSE {[error |-> "", template |-> BinnedTemplate(vc, vr, bins)]}

CurvatureValues == (0..MaxCurv) \cup {NaN}

TemplateRateValues == (0..MaxRate) \cup {NaN}

AnalyzeIdle ==
    /\ an_curvatures = <<>>
    /\ an_rates = <<>>
    /\ bin_count = 0
    /\ an_pc = "idle"
    /\ template = NoTemplate
    /\ an_error = ""

InitAnalyze ==
    /\ an_curvatures \in UNION {[1..n -> CurvatureValues] : n \in 1..MaxPairs}
    /\ an_rates \in UNION {[1..n -> TemplateRateValues] : n \in 1..MaxPairs}
    /\ bin_count \in 1..MaxBins
    /\ an_pc = "ready"
    /\ template = NoTemplate
    /\ an_error = ""

AnalyzeMigrationTemplate ==
    /\ an_pc = "ready"
    /\ \E out \in AnalyzeOutcomes(an_curvatures, an_rates, bin_count) :
          /\ an_error' = out.error
          /\ template' = out.template
          /\ an_pc' = IF out.error = "" THEN "returned" ELSE "raised"
    /\ UNCHANGED <<an_curvatures, an_rates, bin_count>>

----------------------------------------------------------------------------
(* compare_regulated_unregulated *)

RatAdd(a, b) == Rat(a.n * b.d + b.n * a.d, a.d * b.d)

RatLeq(a, b) == a.n * b.d <= b.n * a.d

RECURSIVE RatSum(_)
RatSum(a) == IF a = <<>> THEN Rat(0, 1) ELSE RatAdd(Head(a), RatSum(Tail(a)))

\* np.mean of an array of floats
RatMean(a) == LET s == RatSum(a) IN Rat(s.n, s.d * Len(a))

\* np.max of an array of floats
RECURSIVE RatMax(_)
RatMax(a) ==
    IF Len(a) = 1 THEN a[1]
    ELSE LET m == RatMax(Tail(a)) IN IF RatLeq(a[1], m) THEN m ELSE a[1]

\* x / (y + 1e-10), kept as the pair (x, y): for the y of this model, whose
\* denominators are small, y + 1e-10 is never zero.
\* Mutant: x / y, without the epsilon.
OverPlusEpsilon_NoEpsilon(x, y) == [num |-> x, den |-> y, eps |-> FALSE]

OverPlusEpsilon(x, y) == [num |-> x, den |-> y, eps |-> TRUE]

\* mean / (np.max(mean) + 1e-10), elementwise
NormalizedTemplate(mean) ==
    [i \in 1..Len(mean) |-> OverPlusEpsilon(mean[i], RatMax(mean))]

RECURSIVE Lcm(_)
Lcm(a) ==
    IF a = <<>> THEN 1
    ELSE LET l == Lcm(Tail(a)) IN (a[1].d * l) \div Gcd(a[1].d, l)

RECURSIVE GcdOf(_)
GcdOf(a) == IF a = <<>> THEN 0 ELSE Gcd(Abs(Head(a)), GcdOf(Tail(a)))

\* The integer vector proportional to a, with a positive factor: Pearson's
\* r does not change when a vector is scaled by a positive factor, as it is
\* by 1 / (max + 1e-10) with max >= 0.
Direction(a) ==
    LET l == Lcm(a)
        v == [i \in 1..Len(a) |-> a[i].n * (l \div a[i].d)]
        g == GcdOf(v)
    IN  IF g = 0 THEN v ELSE [i \in 1..Len(v) |-> v[i] \div g]

RECURSIVE Dot(_, _)
Dot(x, y) == IF x = <<>> THEN 0 ELSE Head(x) * Head(y) + Dot(Tail(x), Tail(y))

Sign(v) == IF v > 0 THEN 1 ELSE IF v < 0 THEN -1 ELSE 0

NaNCorrelation == [nan |-> TRUE, sign |-> 0, sq |-> Zero]

\* Mutant: the correlation of a vector with a constant vector is 0.
Pearson_ZeroForConstant(x, y) ==
    LET n   == Len(x)
        sxy == n * Dot(x, y) - SeqSum(x) * SeqSum(y)
        sxx == n * Dot(x, x) - SeqSum(x) * SeqSum(x)
        syy == n * Dot(y, y) - SeqSum(y) * SeqSum(y)
    IN  IF sxx = 0 \/ syy = 0 THEN [nan |-> FALSE, sign |-> 0, sq |-> Zero]
        ELSE LET a == Rat(Abs(sxy), sxx)
                 b == Rat(Abs(sxy), syy)
             IN  [nan |-> FALSE, sign |-> Sign(sxy), sq |-> Frac(a.n * b.n, a.d * b.d)]

\* np.corrcoef(x, y)[0, 1] as (sign, square): cov / sqrt(var_x * var_y),
\* NaN (0/0) when either variance is zero, as it is for a single bin.
Pearson(x, y) ==
    LET n   == Len(x)
        sxy == n * Dot(x, y) - SeqSum(x) * SeqSum(y)
        sxx == n * Dot(x, x) - SeqSum(x) * SeqSum(x)
        syy == n * Dot(y, y) - SeqSum(y) * SeqSum(y)
    IN  IF sxx = 0 \/ syy = 0 THEN NaNCorrelation
        ELSE LET a == Rat(Abs(sxy), sxx)
                 b == Rat(Abs(sxy), syy)
             IN  [nan |-> FALSE, sign |-> Sign(sxy), sq |-> Frac(a.n * b.n, a.d * b.d)]

\* Mutant: the unregulated mean over the regulated one.
RateSuppression_Swapped(reg_mean, unreg_mean) ==
    OverPlusEpsilon(RatMean(unreg_mean), RatMean(reg_mean))

\* np.mean(reg_mean) / (np.mean(unreg_mean) + 1e-10)
RateSuppression(reg_mean, unreg_mean) ==
    OverPlusEpsilon(RatMean(reg_mean), RatMean(unreg_mean))

NoComparison ==
    [regulated_bins |-> <<>>, regulated_mean_rates |-> <<>>,
     regulated_std_rates |-> <<>>, unregulated_bins |-> <<>>,
     unregulated_mean_rates |-> <<>>, unregulated_std_rates |-> <<>>,
     template_correlation |-> NaNCorrelation,
     rate_suppression_factor |-> OverPlusEpsilon(Rat(0, 1), Rat(0, 1)),
     regulated_template_normalized |-> <<>>,
     unregulated_template_normalized |-> <<>>]

\* The dict built from the two templates.
Comparison(reg, unreg) ==
    [regulated_bins |-> reg.bin_centers,
     regulated_mean_rates |-> reg.mean_rates,
     regulated_std_rates |-> reg.std_rates,
     unregulated_bins |-> unreg.bin_centers,
     unregulated_mean_rates |-> unreg.mean_rates,
     unregulated_std_rates |-> unreg.std_rates,
     template_correlation |->
         Pearson(Direction(reg.mean_rates), Direction(unreg.mean_rates)),
     rate_suppression_factor |-> RateSuppression(reg.mean_rates, unreg.mean_rates),
     regulated_template_normalized |-> NormalizedTemplate(reg.mean_rates),
     unregulated_template_normalized |-> NormalizedTemplate(unreg.mean_rates)]

\* The outcomes of compare_regulated_unregulated: [error, comparison]. An
\* exception of either analyze_migration_template call propagates, the
\* regulated call first.
CompareOutcomes(rc, rr, uc, ur, bins) ==
    UNION {IF reg.error # ""
           THEN {[error |-> reg.error, comparison |-> NoComparison]}
           ELSE {IF unreg.error # ""
                 THEN [error |-> unreg.error, comparison |-> NoComparison]
                 ELSE [error |-> "",
                       comparison |-> Comparison(reg.template, unreg.template)] :
                 unreg \in AnalyzeOutcomes(uc, ur, bins)} :
           reg \in AnalyzeOutcomes(rc, rr, bins)}

\* Curvature arrays in ascending order (the binning does not depend on the
\* order of the pairs).
SortedCurvatures ==
    {a \in UNION {[1..n -> 0..MaxCurv] : n \in 1..MaxCmpPairs} :
        \A i \in 1..(Len(a) - 1) : a[i] <= a[i + 1]}

\* Noise-free rates: rate = k * curvature + b
LinearRates(c, k, b) == [i \in 1..Len(c) |-> k * c[i] + b]

CompareIdle ==
    /\ regulated_curvatures = <<>>
    /\ cmp_regulated_rates = <<>>
    /\ unregulated_curvatures = <<>>
    /\ cmp_unregulated_rates = <<>>
    /\ cmp_bin_count = 0
    /\ cmp_pc = "idle"
    /\ comparison = NoComparison
    /\ cmp_error = ""

InitCompare ==
    /\ regulated_curvatures \in SortedCurvatures
    /\ unregulated_curvatures \in SortedCurvatures
    /\ \E k \in 0..MaxSlope, b \in 0..MaxOffset :
          cmp_regulated_rates = LinearRates(regulated_curvatures, k, b)
    /\ \E k \in 0..MaxSlope, b \in 0..MaxOffset :
          cmp_unregulated_rates = LinearRates(unregulated_curvatures, k, b)
    /\ cmp_bin_count \in 1..MaxBins
    /\ cmp_pc = "ready"
    /\ comparison = NoComparison
    /\ cmp_error = ""

CompareRegulatedUnregulated ==
    /\ cmp_pc = "ready"
    /\ \E out \in CompareOutcomes(regulated_curvatures, cmp_regulated_rates,
                                   unregulated_curvatures, cmp_unregulated_rates,
                                   cmp_bin_count) :
          /\ cmp_error' = out.error
          /\ comparison' = out.comparison
          /\ cmp_pc' = IF out.error = "" THEN "returned" ELSE "raised"
    /\ UNCHANGED <<regulated_curvatures, cmp_regulated_rates,
                   unregulated_curvatures, cmp_unregulated_rates, cmp_bin_count>>

----------------------------------------------------------------------------
(* prepare_lme_data *)

\* An optional array argument: None, or the array given.
None == [given |-> FALSE, values |-> <<>>]

Given(a) == [given |-> TRUE, values |-> a]

\* a * b on floats: Rat makes inf * 0 and anything with a NaN the NaN 0/0.
FloatMul(a, b) == Rat(a.n * b.n, a.d * b.d)

\* np.zeros(n_points)
Zeros(n) == [k \in 1..n |-> Rat(0, 1)]

\* The columns of the dict data, in insertion order.
DataColumns(c, r, reg, ids, periods) ==
    LET n_points == Len(c)
    IN  [curvature      |-> c,
         migration_rate |-> r,
         regulated      |-> reg,
         reach_id       |-> IF ids.given THEN ids.values ELSE Zeros(n_points),
         time_period    |-> IF periods.given THEN periods.values ELSE Zeros(n_points)]

\* pd.DataFrame(data) raises ValueError unless all arrays have one length.
SameLength(cols) ==
    /\ Len(cols.migration_rate) = Len(cols.curvature)
    /\ Len(cols.regulated) = Len(cols.curvature)
    /\ Len(cols.reach_id) = Len(cols.curvature)
    /\ Len(cols.time_period) = Len(cols.curvature)

\* Row k of pd.DataFrame(data), labelled by its 0-based position.
FrameRow(cols, k) ==
    [index          |-> k - 1,
     curvature      |-> cols.curvature[k],
     migration_rate |-> cols.migration_rate[k],
     regulated      |-> cols.regulated[k],
     reach_id       |-> cols.reach_id[k],
     time_period    |-> cols.time_period[k]]

\* A row that dropna removes: some field is NaN (an infinity is not NA).
HasNA(row) ==
    \/ IsNaN(row.curvature)
    \/ IsNaN(row.migration_rate)
    \/ IsNaN(row.regulated)
    \/ IsNaN(row.reach_id)
    \/ IsNaN(row.time_period)

\* df.dropna(): the rows without NA, in order, keeping their labels.
RECURSIVE DropNA(_)
DropNA(rows) ==
    IF rows = <<>> THEN <<>>
    ELSE IF HasNA(Head(rows)) THEN DropNA(Tail(rows))
    ELSE <<Head(rows)>> \o DropNA(Tail(rows))

\* df['curvature_x_regulated'] = df['curvature'] * df['regulated']
WithInteraction(row) ==
    [index                 |-> row.index,
     curvature             |-> row.curvature,
     migration_rate        |-> row.migration_rate,
     regulated             |-> row.regulated,
     reach_id              |-> row.reach_id,
     time_period           |-> row.time_period,
     curvature_x_regulated |-> FloatMul(row.curvature, row.regulated)]

prepare_lme_data(c, r, reg, ids, periods) ==
    LET cols == DataColumns(c, r, reg, ids, periods)
        kept == DropNA([k \in 1..Len(c) |-> FrameRow(cols, k)])
    IN  [k \in 1..Len(kept) |-> WithInteraction(kept[k])]

Infinity == Rat(1, 0)

PrepCurvatureValues == {Rat(0, 1), Rat(2, 1), NotANumber, Infinity}

PrepRateValues == {Rat(1, 1), NotANumber}

PrepRegulationValues == {Rat(0, 1), Rat(1, 1), NotANumber}

PrepIdValues == {Rat(0, 1), NotANumber}

PrepareIdle ==
    /\ prep_curvatures = <<>>
    /\ prep_rates = <<>>
    /\ regulation_status = <<>>
    /\ reach_ids = None
    /\ time_periods = None
    /\ prep_pc = "idle"
    /\ prep_df = <<>>
    /\ prep_error = ""

InitPrepare ==
    \E n \in 1..MaxRows :
        /\ prep_curvatures \in [1..n -> PrepCurvatureValues]
        /\ prep_rates \in [1..n -> PrepRateValues]
        /\ regulation_status \in [1..n -> PrepRegulationValues]
        /\ reach_ids \in {None, Given(Zeros(n + 1))}
                            \cup {Given(a) : a \in [1..n -> PrepIdValues]}
        /\ time_periods \in {None, Given(Zeros(n)),
                              Given([k \in 1..n |-> IF k = 1 THEN NotANumber
                                                              ELSE Rat(0, 1)])}
        /\ prep_pc = "ready"
        /\ prep_df = <<>>
        /\ prep_error = ""

PrepareLmeData ==
    /\ prep_pc = "ready"
    /\ IF SameLength(DataColumns(prep_curvatures, prep_rates, regulation_status,
                                 reach_ids, time_periods))
       THEN /\ prep_df' = prepare_lme_data(prep_curvatures, prep_rates,
                                      regulation_status, reach_ids, time_periods)
            /\ prep_pc' = "returned"
            /\ prep_error' = prep_error
       ELSE /\ prep_df' = prep_df
            /\ prep_pc' = "raised"
            /\ prep_error' = "ValueError"
    /\ UNCHANGED <<prep_curvatures, prep_rates, regulation_status, reach_ids,
                   time_periods>>

----------------------------------------------------------------------------
(* data_generator: numpy's global generator *)

\* np.random is one process-wide generator.  Its state is kept as a number
\* below RngModulus; a draw is a function of the state and moves the state on.
RngStates == 0..(RngModulus - 1)

\* Mutant: seeding leaves the generator as it is.
SeedState_Kept(seed) == rng_state

\* np.random.seed(seed): the state is a function of the seed alone.
SeedState(seed) == seed % RngModulus

\* The state after n draws.
Advance(s, n) == (s + n) % RngModulus

\* A standard normal draw.
StandardNormal(s) == (s % 3) - 1

\* np.random.lognormal(mean=-3, sigma=0.8), in units of 1/1000: a value
\* below 0.001, a value inside [0.001, 0.5], a value above 0.5.
LogNormal(s) == IF s % 3 = 0 THEN 0 ELSE IF s % 3 = 1 THEN 50 ELSE 900

\* np.random.uniform(low, high): low plus a part of the range.
Uniform(s, low) == low + s

\* size=n draws of one kind, starting in state s.
Draws(s, n, Kind(_)) == [k \in 1..n |-> Kind(Advance(s, k - 1))]

\* np.random.shuffle: Fisher-Yates from the last index down, one draw per
\* swap.  i is the 1-based index being placed.
RECURSIVE ShuffleFrom(_, _, _)
ShuffleFrom(a, i, s) ==
    IF i <= 1 THEN a
    ELSE LET j == (s % i) + 1
             swapped == [k \in 1..Len(a) |->
                            IF k = i THEN a[j] ELSE IF k = j THEN a[i] ELSE a[k]]
         IN  ShuffleFrom(swapped, i - 1, Advance(s, 1))

Shuffle(a, s) == ShuffleFrom(a, Len(a), s)

\* The draws np.random.shuffle consumes on an array of length n.
ShuffleDraws(n) == IF n > 1 THEN n - 1 ELSE 0

----------------------------------------------------------------------------
(* data_generator: generate_synthetic_channel *)

DefaultAmplitude == 50
DefaultWavelength == 200

\* positions: point k is (x + noise_x, y + noise_y) with x = s_k, the k-th
\* of n_points steps to 5 * wavelength, y = amplitude * sin(2 pi s_k /
\* wavelength), noise_x = 0.01 * wavelength * zx and noise_y = 0.05 *
\* amplitude * zy.  A point is kept as (k, amplitude, wavelength, zx, zy),
\* which determines it.
generate_synthetic_channel(n_points, amplitude, wavelength, s) ==
    LET noise_x == Draws(s, n_points, StandardNormal)
        noise_y == Draws(Advance(s, n_points), n_points, StandardNormal)
    IN  [positions |-> [k \in 1..n_points |->
                           [k |-> k, amplitude |-> amplitude,
                            wavelength |-> wavelength,
                            zx |-> noise_x[k], zy |-> noise_y[k]]],
         rng |-> Advance(s, 2 * n_points)]

----------------------------------------------------------------------------
(* data_generator: generate_migration_data *)

\* Units: curvatures in 1/1000, regulated_fraction, suppression_factor and
\* noise_level in 1/10, migration rates in 1/10000.

\* random_seed=None
NoSeed == -1

\* np.clip(curvatures, 0.001, 0.5)
CurvatureFloor == 1
CurvatureCeiling == 500

Clip(x, lo, hi) == IF x < lo THEN lo ELSE IF x > hi THEN hi ELSE x

\* Mutant: the product is rounded up.
RegulatedCount_RoundedUp(n_reaches, regulated_fraction) ==
    (n_reaches * regulated_fraction + 9) \div 10

\* int(n_reaches * regulated_fraction), for a fraction that is not negative
RegulatedCount(n_reaches, regulated_fraction) ==
    (n_reaches * regulated_fraction) \div 10

\* Mutant: np.tile(a, r)
Repeat_Tiled(a, r) == [k \in 1..(Len(a) * r) |-> a[((k - 1) % Len(a)) + 1]]

\* np.repeat(a, r)
Repeat(a, r) == [k \in 1..(Len(a) * r) |-> a[((k - 1) \div r) + 1]]

\* Mutant: the noisy rate is returned as it is.
NonNegative_Unclipped(x) == x

\* np.maximum(x, 0)
NonNegative(x) == IF x < 0 THEN 0 ELSE x

\* np.where(regulation_status == 1, base * suppression_factor, base)
SuppressedRate(base, status, suppression_factor) ==
    IF status = 1 THEN base * suppression_factor ELSE base * 10

\* The draws one pass of the reach loop consumes: amplitude, wavelength,
\* noise_x, noise_y and the angles.
DrawsPerReach(points_per_reach) == 2 + 3 * points_per_reach

\* pos_t1 and pos_t2 of reach i (0-based), the generator being in state s
\* at the top of the loop body.  A migrated point is kept as (its point at
\* time 1, its rate, time_delta, its angle), which determines it.
ReachPositions(i, local_rates, a, s) ==
    LET amplitude  == Uniform(s, 30)
        wavelength == Uniform(Advance(s, 1), 150)
        channel    == generate_synthetic_channel(a.points_per_reach, amplitude,
                                                 wavelength, Advance(s, 2))
        angles     == Draws(channel.rng, a.points_per_reach, LAMBDA t : t)
    IN  [t1 |-> channel.positions,
         t2 |-> [k \in 1..a.points_per_reach |->
                    [t1 |-> channel.positions[k], rate |-> local_rates[k],
                     time_delta |-> a.time_delta, angle |-> angles[k]]]]

NoData ==
    [curvatures |-> <<>>, migration_rates |-> <<>>, regulation_status |-> <<>>,
     reach_ids |-> <<>>, time_periods |-> <<>>, positions_t1 |-> <<>>,
     positions_t2 |-> <<>>, time_delta |-> 0, n_reaches |-> 0,
     points_per_reach |-> 0]

\* generate_migration_data(**a) with the generator in state s:
\* [error, data, rng], rng being the state the call leaves behind.
generate_migration_data(a, s) ==
    LET s0 == IF a.random_seed # NoSeed THEN SeedState(a.random_seed) ELSE s
        n_total == a.n_reaches * a.points_per_reach
        drawn == Draws(s0, n_total, LogNormal)
        curv ==
            [k \in 1..n_total |->
                Clip(drawn[k], CurvatureFloor, CurvatureCeiling)]
        s1 == Advance(s0, n_total)
        n_regulated == RegulatedCount(a.n_reaches, a.regulated_fraction)
        reach_regulation ==
            Shuffle([k \in 1..a.n_reaches |-> IF k <= n_regulated THEN 1 ELSE 0],
                    s1)
        s2 == Advance(s1, ShuffleDraws(a.n_reaches))
        status == Repeat(reach_regulation, a.points_per_reach)
        ids ==
            Repeat([k \in 1..a.n_reaches |-> k - 1], a.points_per_reach)
        noise == Draws(s2, n_total, StandardNormal)
        s3 == Advance(s2, n_total)
        rates ==
            [k \in 1..n_total |->
                NonNegative(SuppressedRate(a.curvature_migration_slope
                                              * curv[k],
                                           status[k],
                                           a.suppression_factor)
                            + noise[k] * a.noise_level * 1000)]
        reach ==
            [i \in 0..(a.n_reaches - 1) |->
                ReachPositions(i,
                               [k \in 1..a.points_per_reach |->
                                   rates[i * a.points_per_reach + k]],
                               a,
                               Advance(s3, i * DrawsPerReach(a.points_per_reach)))]
        stacked(t) ==
            [k \in 1..n_total |->
                LET i == (k - 1) \div a.points_per_reach
                    j == ((k - 1) % a.points_per_reach) + 1
                IN  IF t = 1 THEN reach[i].t1[j] ELSE reach[i].t2[j]]
    IN  IF a.noise_level < 0
        THEN \* np.random.normal: ValueError("scale < 0")
             [error |-> "ValueError", data |-> NoData, rng |-> s2]
        ELSE IF a.n_reaches = 0
        THEN \* np.vstack([]): ValueError, need at least one array
             [error |-> "ValueError", data |-> NoData, rng |-> s3]
        ELSE [error |-> "",
              data |-> [curvatures |-> curv,
                        migration_rates |-> rates,
                        regulation_status |-> status,
                        reach_ids |-> ids,
                        time_periods |-> [k \in 1..n_total |-> 0],
                        positions_t1 |-> stacked(1),
                        positions_t2 |-> stacked(2),
                        time_delta |-> a.time_delta,
                        n_reaches |-> a.n_reaches,
                        points_per_reach |-> a.points_per_reach],
              rng |-> Advance(s3, a.n_reaches
                                    * DrawsPerReach(a.points_per_reach))]

----------------------------------------------------------------------------
(* data_generator: calls *)

NoArgs ==
    [n_reaches |-> 0, points_per_reach |-> 0, regulated_fraction |-> 0,
     time_delta |-> 0, suppression_factor |-> 0,
     curvature_migration_slope |-> 0, noise_level |-> 0, random_seed |-> NoSeed]

GeneratorArgs ==
    [n_reaches : 0..MaxReaches,
     points_per_reach : 1..MaxPointsPerReach,
     regulated_fraction : 0..10,
     time_delta : {10},
     suppression_factor : {0, 3},
     curvature_migration_slope : {-1, 5},
     noise_level : {-1, 0, 50},
     random_seed : {NoSeed, 0, 1}]

\* The calls of a session: the defaults but for the size and the seed.
SessionArgs ==
    [n_reaches : {1},
     points_per_reach : {1},
     regulated_fraction : {5},
     time_delta : {10},
     suppression_factor : {3},
     curvature_migration_slope : {5},
     noise_level : {2},
     random_seed : {NoSeed, 0, 1}]

SessionChannelPoints == {1}

NoCall == [kind |-> "", repeated |-> FALSE]

\* memo with the result of the first call with arguments k added.
Remember(memo, k, v) == IF k \in DOMAIN memo THEN memo ELSE (k :> v) @@ memo

GeneratorIdle ==
    /\ rng_state = 0
    /\ gen_args = NoArgs
    /\ gen_pc = "idle"
    /\ gen_result = NoData
    /\ gen_error = ""
    /\ channel_args = 0
    /\ channel_result = <<>>
    /\ last_call = NoCall
    /\ first_generated = <<>>
    /\ first_channel = <<>>

\* One call, with any arguments, in a process whose generator is in any
\* state (a seeded call starts from the state of its seed).
InitGenerate ==
    /\ gen_args \in GeneratorArgs
    /\ rng_state \in (IF gen_args.random_seed = NoSeed THEN RngStates ELSE {0})
    /\ gen_pc = "ready"
    /\ gen_result = NoData
    /\ gen_error = ""
    /\ channel_args = 0
    /\ channel_result = <<>>
    /\ last_call = NoCall
    /\ first_generated = <<>>
    /\ first_channel = <<>>

\* A process that makes any number of calls, its generator in any state.
InitSession ==
    /\ rng_state \in RngStates
    /\ gen_args = NoArgs
    /\ gen_pc = "open"
    /\ gen_result = NoData
    /\ gen_error = ""
    /\ channel_args = 0
    /\ channel_result = <<>>
    /\ last_call = NoCall
    /\ first_generated = <<>>
    /\ first_channel = <<>>

\* The call generate_migration_data(**a).
Generate(a) ==
    LET out == generate_migration_data(a, rng_state)
    IN  /\ gen_args' = a
        /\ rng_state' = out.rng
        /\ gen_error' = out.error
        /\ gen_result' = out.data
        /\ gen_pc' = IF out.error = "" THEN "returned" ELSE "raised"
        /\ last_call' = [kind |-> "generate",
                          repeated |-> a \in DOMAIN first_generated]
        /\ first_generated' =
              IF out.error = "" THEN Remember(first_generated, a, out.data)
              ELSE first_generated
        /\ UNCHANGED <<channel_args, channel_result, first_channel>>

GenerateMigrationData ==
    /\ gen_pc = "ready"
    /\ Generate(gen_args)

SessionGenerate ==
    /\ gen_pc \in {"open", "returned", "raised"}
    /\ \E a \in SessionArgs : Generate(a)

\* The call generate_synthetic_channel(n_points=n).
SessionChannel ==
    /\ gen_pc \in {"open", "returned", "raised"}
    /\ \E n \in SessionChannelPoints :
          LET out == generate_synthetic_channel(n, DefaultAmplitude,
                                                DefaultWavelength, rng_state)
          IN  /\ channel_args' = n
              /\ channel_result' = out.positions
              /\ rng_state' = out.rng
              /\ last_call' = [kind |-> "channel",
                                repeated |-> n \in DOMAIN first_channel]
              /\ first_channel' = Remember(first_channel, n, out.positions)
    /\ UNCHANGED <<gen_args, gen_pc, gen_result, gen_error, first_generated>>

\* A draw from np.random by any other code of the process.
SessionDraw ==
    /\ gen_pc \in {"open", "returned", "raised"}
    /\ rng_state' = Advance(rng_state, 1)
    /\ last_call' = [kind |-> "draw", repeated |-> FALSE]
    /\ UNCHANGED <<gen_args, gen_pc, gen_result, gen_error, channel_args,
                   channel_result, first_generated, first_channel>>

----------------------------------------------------------------------------
(* Specifications *)

vars == <<curv_vars, fit_vars, interp_vars, dorm_vars, mig_vars, an_vars, cmp_vars, prep_vars, gen_vars>>

NextCurvature ==
    CalculateCurvature
        /\ UNCHANGED <<fit_vars, interp_vars, dorm_vars, mig_vars, an_vars, cmp_vars, prep_vars, gen_vars>>

StartCurvature ==
    /\ InitCurvature
    /\ FitIdle
    /\ InterpretIdle
    /\ DormancyIdle
    /\ MigrationIdle
    /\ AnalyzeIdle
    /\ CompareIdle
    /\ PrepareIdle
    /\ GeneratorIdle

SpecCurvature == StartCurvature /\ [][NextCurvature]_vars

NextFit ==
    \/ FitDefaultFormula
        /\ UNCHANGED <<curv_vars, interp_vars, dorm_vars, mig_vars, an_vars, cmp_vars, prep_vars, gen_vars>>
    \/ FitPrimary
        /\ UNCHANGED <<curv_vars, interp_vars, dorm_vars, mig_vars, an_vars, cmp_vars, prep_vars, gen_vars>>
    \/ FitFallback
        /\ UNCHANGED <<curv_vars, interp_vars, dorm_vars, mig_vars, an_vars, cmp_vars, prep_vars, gen_vars>>

StartFit ==
    /\ InitFit
    /\ CurvatureIdle
    /\ InterpretIdle
    /\ DormancyIdle
    /\ MigrationIdle
    /\ AnalyzeIdle
    /\ CompareIdle
    /\ PrepareIdle
    /\ GeneratorIdle

SpecFit == StartFit /\ [][NextFit]_vars

NextInterpret ==
    InterpretResults
        /\ UNCHANGED <<curv_vars, fit_vars, dorm_vars, mig_vars, an_vars, cmp_vars, prep_vars, gen_vars>>

StartInterpret ==
    /\ InitInterpret
    /\ CurvatureIdle
    /\ FitIdle
    /\ DormancyIdle
    /\ MigrationIdle
    /\ AnalyzeIdle
    /\ CompareIdle
    /\ PrepareIdle
    /\ GeneratorIdle

SpecInterpret == StartInterpret /\ [][NextInterpret]_vars

NextDormancy ==
    CalculateDormancyIndex
        /\ UNCHANGED <<curv_vars, fit_vars, interp_vars, mig_vars, an_vars, cmp_vars, prep_vars, gen_vars>>

StartDormancy ==
    /\ InitDormancy
    /\ CurvatureIdle
    /\ FitIdle
    /\ InterpretIdle
    /\ MigrationIdle
    /\ AnalyzeIdle
    /\ CompareIdle
    /\ PrepareIdle
    /\ GeneratorIdle

SpecDormancy == StartDormancy /\ [][NextDormancy]_vars

NextMigration ==
    CalculateMigrationRate
        /\ UNCHANGED <<curv_vars, fit_vars, interp_vars, dorm_vars, an_vars, cmp_vars, prep_vars, gen_vars>>

StartMigration ==
    /\ InitMigration
    /\ CurvatureIdle
    /\ FitIdle
    /\ InterpretIdle
    /\ DormancyIdle
    /\ AnalyzeIdle
    /\ CompareIdle
    /\ PrepareIdle
    /\ GeneratorIdle

SpecMigration == StartMigration /\ [][NextMigration]_vars

NextAnalyze ==
    AnalyzeMigrationTemplate
        /\ UNCHANGED <<curv_vars, fit_vars, interp_vars, dorm_vars, mig_vars, cmp_vars, prep_vars, gen_vars>>

StartAnalyze ==
    /\ InitAnalyze
    /\ CurvatureIdle
    /\ FitIdle
    /\ InterpretIdle
    /\ DormancyIdle
    /\ MigrationIdle
    /\ CompareIdle
    /\ PrepareIdle
    /\ GeneratorIdle

SpecAnalyze == StartAnalyze /\ [][NextAnalyze]_vars

NextCompare ==
    CompareRegulatedUnregulated
        /\ UNCHANGED <<curv_vars, fit_vars, interp_vars, dorm_vars, mig_vars, an_vars, prep_vars, gen_vars>>

StartCompare ==
    /\ InitCompare
    /\ CurvatureIdle
    /\ FitIdle
    /\ InterpretIdle
    /\ DormancyIdle
    /\ MigrationIdle
    /\ AnalyzeIdle
    /\ PrepareIdle
    /\ GeneratorIdle

SpecCompare == StartCompare /\ [][NextCompare]_vars

NextPrepare ==
    PrepareLmeData
        /\ UNCHANGED <<curv_vars, fit_vars, interp_vars, dorm_vars, mig_vars, an_vars, cmp_vars, gen_vars>>

StartPrepare ==
    /\ InitPrepare
    /\ CurvatureIdle
    /\ FitIdle
    /\ InterpretIdle
    /\ DormancyIdle
    /\ MigrationIdle
    /\ AnalyzeIdle
    /\ CompareIdle
    /\ GeneratorIdle

SpecPrepare == StartPrepare /\ [][NextPrepare]_vars

NextGenerate ==
    GenerateMigrationData
        /\ UNCHANGED <<curv_vars, fit_vars, interp_vars, dorm_vars, mig_vars, an_vars, cmp_vars, prep_vars>>

StartGenerate ==
    /\ InitGenerate
    /\ CurvatureIdle
    /\ FitIdle
    /\ InterpretIdle
    /\ DormancyIdle
    /\ MigrationIdle
    /\ AnalyzeIdle
    /\ CompareIdle
    /\ PrepareIdle

SpecGenerate == StartGenerate /\ [][NextGenerate]_vars

NextSession ==
    \/ SessionGenerate
        /\ UNCHANGED <<curv_vars, fit_vars, interp_vars, dorm_vars, mig_vars, an_vars, cmp_vars, prep_vars>>
    \/ SessionChannel
        /\ UNCHANGED <<curv_vars, fit_vars, interp_vars, dorm_vars, mig_vars, an_vars, cmp_vars, prep_vars>>
    \/ SessionDraw
        /\ UNCHANGED <<curv_vars, fit_vars, interp_vars, dorm_vars, mig_vars, an_vars, cmp_vars, prep_vars>>

StartSession ==
    /\ InitSession
    /\ CurvatureIdle
    /\ FitIdle
    /\ InterpretIdle
    /\ DormancyIdle
    /\ MigrationIdle
    /\ AnalyzeIdle
    /\ CompareIdle
    /\ PrepareIdle

SpecSession == StartSession /\ [][NextSession]_vars

----------------------------------------------------------------------------
(* Claims about calculate_curvature *)

N == Len(positions)
HalfWindow == window_size \div 2
InteriorIndices == {i \in 0..(N - 1) : HalfWindow <= i /\ i < N - HalfWindow}
EdgeIndices == (0..(N - 1)) \ InteriorIndices

\* Menger curvature of the three points at the 0-based indices a, b, c.
MengerOfIndices(a, b, c) == Menger(positions[a + 1], positions[b + 1], positions[c + 1])

\* The value the loop computes for the interior index i.
InteriorValue(i) == MengerOfIndices(i - HalfWindow, i, i + HalfWindow)

\* C1: for an odd window_size >= 3 and N >= window_size points, the returned
\* value at every interior index i (h <= i < N - h) is the Menger curvature
\* of the points at i - h, i and i + h (0 when the distance product is not
\* above the epsilon); no interior index carries another index's value.
C1_InteriorIsOwnMenger ==
    (curv_pc = "returned" /\ window_size % 2 = 1)
        => \A i \in InteriorIndices : curvatures[i + 1] = InteriorValue(i)

\* C2: for window_size >= 3 and N >= window_size the result has exactly N
\* values, every left-edge index holds the Menger value of index
\* window_size // 2 and every right-edge index holds the Menger value of
\* index N - window_size // 2 - 1 (stated where an interior index exists).
C2_EdgesHoldNearestInterior ==
    curv_pc = "returned"
        => /\ Len(curvatures) = N
           /\ InteriorIndices # {}
                => \A i \in EdgeIndices :
                      curvatures[i + 1] =
                          IF i < HalfWindow
                          THEN InteriorValue(HalfWindow)
                          ELSE InteriorValue(N - HalfWindow - 1)

----------------------------------------------------------------------------
(* Claims about fit_lme_model *)

FitFinished == fit_pc \in {"returned", "raised"}
PrimaryRaised == primary_outcome \notin {"", "converged", "not_converged"}
FallbackRaised == ols_outcome \notin {"", "ok"}

\* C3: when the mixed-effects attempt raises and the OLS refit succeeds, the
\* call does not raise: the failure is on the print channel, and the OLS
\* result is returned together with its summary table.
C3_FallbackReturnsOLS ==
    (FitFinished /\ PrimaryRaised /\ ols_outcome = "ok")
        => /\ fit_pc = "returned"
           /\ fit_raised = ""
           /\ \E k \in 1..Len(fit_log) :
                 fit_log[k] = [text |-> "Error fitting model", e |-> primary_outcome]
           /\ result.model = "OLS"
           /\ fit_summary.index = result.exog_names
           /\ Len(fit_summary.columns) = 4

C3_Witness ==
    /\ fit_pc = "returned"
    /\ primary_outcome = "LinAlgError"
    /\ ols_outcome = "ok"
    /\ result.model = "OLS"

\* C4: an error labelled ModelFitError leaves fit_lme_model exactly when
\* both the mixed-effects attempt and the OLS attempt failed.
C4_BothFailRaiseModelFitError ==
    FitFinished
        => ((PrimaryRaised /\ FallbackRaised) <=> (fit_raised = "ModelFitError"))

\* C5: a mixed-effects fit that did not converge is not returned: the
\* failure is logged and the OLS refit is returned instead.
C5_NonConvergedFallsBack ==
    (FitFinished /\ primary_outcome = "not_converged")
        => /\ result.model = "OLS"
           /\ fit_log # <<>>

\* The fixed-effect predictors of a design, the intercept column aside.
FixedEffects(names) == Range(names) \ {"Intercept", "const"}

\* C6: the OLS fallback fits the same fixed-effect predictors as the formula
\* used by the primary attempt of the call, for the default formula and for
\* any custom one.
C6_FallbackSameDesign ==
    (fit_pc = "returned" /\ result.model = "OLS")
        => FixedEffects(result.exog_names) = Range(formula.rhs)

\* C7: with the default formula, the summary returned by either path has the
\* rows Intercept, curvature, regulated and curvature_x_regulated under these
\* same names, each with coefficient, std_error, z_value and p_value.
C7_SameRowNames ==
    (fit_pc = "returned" /\ formula_arg = NoFormula)
        => /\ {"Intercept", "curvature", "regulated", "curvature_x_regulated"}
                \subseteq Range(fit_summary.index)
           /\ Range(fit_summary.columns)
                = {"coefficient", "std_error", "z_value", "p_value"}

----------------------------------------------------------------------------
(* Claims about interpret_results *)

Interpreted(name) == interp_pc = "returned" /\ name \in DOMAIN summary_df

IsNumber(x) == x # NaN

\* C8: rates_suppressed is true exactly when the coefficient of the row
\* 'regulated' is strictly negative and its p-value is strictly below 0.05;
\* it is false at p-value exactly 0.05 and at coefficient exactly 0.
C8_RatesSuppressed ==
    Interpreted("regulated")
        => LET c == summary_df["regulated"].coefficient
               p == summary_df["regulated"].p_value
               flag == interpretation["rates_suppressed"]
           IN  /\ flag <=> (IsNumber(c) /\ IsNumber(p) /\ c < 0 /\ p < Alpha)
               /\ (p = Alpha \/ c = 0) => ~flag

C8_Witness ==
    /\ Interpreted("regulated")
    /\ summary_df["regulated"].coefficient < 0
    /\ summary_df["regulated"].p_value = Alpha - 1
    /\ interpretation["rates_suppressed"]

\* C9: template_invariant is true exactly when the p-value of the row
\* 'curvature_x_regulated' is strictly greater than 0.05, whatever the
\* interaction coefficient; at p-value exactly 0.05 it is false.
C9_TemplateInvariant ==
    Interpreted("curvature_x_regulated")
        => LET p == summary_df["curvature_x_regulated"].p_value
               flag == interpretation["template_invariant"]
           IN  /\ flag <=> (IsNumber(p) /\ p > Alpha)
               /\ (p = Alpha) => ~flag

C9_Witness ==
    /\ Interpreted("curvature_x_regulated")
    /\ summary_df["curvature_x_regulated"].coefficient # 0
    /\ summary_df["curvature_x_regulated"].p_value = Alpha + 1
    /\ interpretation["template_invariant"]

\* C10: curvature_predicts_migration is true exactly when the coefficient of
\* the row 'curvature' is non-zero, of either sign, and its p-value is
\* strictly below 0.05.
C10_CurvaturePredictsMigration ==
    Interpreted("curvature")
        => LET c == summary_df["curvature"].coefficient
               p == summary_df["curvature"].p_value
               flag == interpretation["curvature_predicts_migration"]
           IN  flag <=> (IsNumber(c) /\ IsNumber(p) /\ (c < 0 \/ c > 0) /\ p < Alpha)

C10_Witness ==
    /\ Interpreted("curvature")
    /\ summary_df["curvature"].coefficient < 0
    /\ summary_df["curvature"].p_value = Alpha - 1
    /\ interpretation["curvature_predicts_migration"]

\* The keys interpret_results writes for a predictor row: the flag, the
\* coefficient entry and the p-value entry.
HypothesisKeys(name) ==
    CASE name = "regulated" ->
            <<"rates_suppressed", "suppression_coefficient", "suppression_pvalue">>
      [] name = "curvature_x_regulated" ->
            <<"template_invariant", "interaction_coefficient", "interaction_pvalue">>
      [] name = "curvature" ->
            <<"curvature_predicts_migration", "curvature_coefficient", "curvature_pvalue">>

\* C11: for every subset of the rows regulated, curvature_x_regulated and
\* curvature present in the summary, interpret_results returns (raising
\* nothing) a dict holding the flag, coefficient and p-value entries of
\* exactly the present rows and no key of an absent row; an empty summary
\* gives an empty dict.
C11_OnlyPresentPredictors ==
    interp_pc = "returned"
        => /\ DOMAIN interpretation =
                UNION {Range(HypothesisKeys(name)) : name \in DOMAIN summary_df}
           /\ \A name \in DOMAIN summary_df :
                 /\ interpretation[HypothesisKeys(name)[1]] \in BOOLEAN
                 /\ interpretation[HypothesisKeys(name)[2]] = summary_df[name].coefficient
                 /\ interpretation[HypothesisKeys(name)[3]] = summary_df[name].p_value
           /\ (DOMAIN summary_df = {}) => (interpretation = EmptyDict)

C11_Witness ==
    /\ interp_pc = "returned"
    /\ DOMAIN summary_df = {"curvature_x_regulated", "curvature"}
    /\ "template_invariant" \in DOMAIN interpretation
    /\ "rates_suppressed" \notin DOMAIN interpretation

----------------------------------------------------------------------------
(* Claims about calculate_geomorphic_dormancy_index *)

\* The element at the 1-based rank p of the array a in increasing order.
ElementOfRank(a, p) ==
    CHOOSE v \in Range(a) :
        /\ Cardinality({k \in 1..Len(a) : a[k] < v}) < p
        /\ p <= Cardinality({k \in 1..Len(a) : a[k] <= v})

\* Twice the median of the array a.
TwiceMedian(a) ==
    ElementOfRank(a, (Len(a) + 1) \div 2) + ElementOfRank(a, (Len(a) + 2) \div 2)

\* dormancy_index is the unclamped ratio of the two medians: 0 exactly when
\* the regulated median is 0, 1 when the medians are equal, above 1 when
\* the regulated median is the larger.
IndexIsMedianRatio ==
    LET rm2 == TwiceMedian(regulated_rates)
        um2 == TwiceMedian(unregulated_rates)
    IN  /\ dormancy_index.d > 0
        /\ dormancy_index.n * um2 = dormancy_index.d * rm2
        /\ (dormancy_index.n = 0) <=> (rm2 = 0)
        /\ (rm2 = um2) => (dormancy_index = [n |-> 1, d |-> 1])
        /\ (rm2 > um2 /\ um2 > 0) => (dormancy_index.n > dormancy_index.d)

\* C12 as stated: for every input whose unregulated median is not exactly
\* 0 the index is median(regulated) / median(unregulated), unclamped.
C12_RatioWheneverMedianNonZero ==
    (dorm_pc = "returned" /\ TwiceMedian(unregulated_rates) # 0)
        => IndexIsMedianRatio

\* C12 amended: for every input whose unregulated median is strictly
\* positive the index is median(regulated) / median(unregulated), unclamped
\* (0 exactly when the regulated median is 0, 1 when the medians are equal,
\* above 1 when the regulated median is the larger); for a negative
\* unregulated median the index is not-a-number.
C12_RatioWhenMedianPositive ==
    dorm_pc = "returned"
        => /\ (TwiceMedian(unregulated_rates) > 0) => IndexIsMedianRatio
           /\ (TwiceMedian(unregulated_rates) < 0) => IsNaN(dormancy_index)

C12_Witness ==
    /\ dorm_pc = "returned"
    /\ TwiceMedian(unregulated_rates) > 0
    /\ TwiceMedian(regulated_rates) > TwiceMedian(unregulated_rates)
    /\ dormancy_index.n > dormancy_index.d
    /\ dormancy_index.d > 0

\* C13: when the unregulated median is exactly 0 the call returns
\* not-a-number: no error, no infinity, no finite value, whatever the
\* regulated rates are.
C13_ZeroMedianGivesNaN ==
    (dorm_pc # "ready" /\ dorm_pc # "idle" /\ TwiceMedian(unregulated_rates) = 0)
        => /\ dorm_pc = "returned"
           /\ IsNaN(dormancy_index)

C13_Witness ==
    /\ dorm_pc = "returned"
    /\ TwiceMedian(unregulated_rates) = 0
    /\ TwiceMedian(regulated_rates) > 0
    /\ IsNaN(dormancy_index)

----------------------------------------------------------------------------
(* Claims about calculate_migration_rate *)

\* Squared Euclidean distance between the points at index k of the two arrays.
DisplacementSq(k) ==
    LET p == positions_t1[k]
        q == positions_t2[k]
        sq(j) == (p[j] - q[j]) * (p[j] - q[j])
    IN  IF Len(p) = 2 THEN sq(1) + sq(2) ELSE sq(1) + sq(2) + sq(3)

\* C18: for same-shape inputs and time_delta > 0 the result has one value
\* per index, the Euclidean distance of the two points divided by
\* time_delta: it is >= 0, identical arrays give the zero vector, and
\* doubling time_delta halves every rate.
C18_RateIsDistanceOverTime ==
    mig_pc = "returned"
        => /\ Len(migration_rates) = Len(positions_t1)
           /\ \A k \in 1..Len(migration_rates) :
                 LET r  == migration_rates[k]
                     r2 == calculate_migration_rate(positions_t1, positions_t2,
                                                    2 * time_delta)[k]
                 IN  /\ r.d > 0 /\ r.n >= 0
                     /\ r.n * time_delta * time_delta = r.d * DisplacementSq(k)
                     /\ 4 * r2.n * r.d = r.n * r2.d
           /\ (positions_t1 = positions_t2)
                => \A k \in 1..Len(migration_rates) : migration_rates[k] = Zero

C18_Witness ==
    /\ mig_pc = "returned"
    /\ time_delta = 2
    /\ Len(migration_rates) = 2
    /\ migration_rates[1] = [n |-> 1, d |-> 4]
    /\ migration_rates[2] = Zero

\* C19 as stated: a shape mismatch always raises the shape error, a
\* time_delta <= 0 always raises the time error, no result is produced, and
\* the two errors are of distinct kinds.
C19_DistinctErrorKinds ==
    (mig_pc # "ready" /\ mig_pc # "idle")
        => /\ ShapesDiffer(positions_t1, positions_t2)
                => (mig_pc = "raised" /\ mig_error.message = ShapeError.message)
           /\ (time_delta <= 0)
                => (mig_pc = "raised" /\ mig_error.message = TimeError.message)
           /\ (mig_pc = "raised") => (migration_rates = <<>>)
           /\ (mig_pc = "raised" /\ mig_error.message = TimeError.message)
                => (mig_error.class # ShapeError.class)

\* C19 amended: the call fails fast with no partial result; it raises
\* ValueError("Position arrays must have the same shape") exactly when the
\* shapes differ, and ValueError("Time delta must be positive") exactly when
\* the shapes agree and time_delta <= 0 (0 included); both failures are the
\* one class ValueError, told apart by their message only.
C19_ValueErrorByMessage ==
    (mig_pc # "ready" /\ mig_pc # "idle")
        => /\ (Shape(positions_t1) # Shape(positions_t2))
                <=> (mig_pc = "raised" /\ mig_error.message = ShapeError.message)
           /\ (Shape(positions_t1) = Shape(positions_t2) /\ time_delta <= 0)
                <=> (mig_pc = "raised" /\ mig_error.message = TimeError.message)
           /\ (mig_pc = "raised")
                => (migration_rates = <<>> /\ mig_error.class = "ValueError")

C19_Witness ==
    /\ mig_pc = "raised"
    /\ time_delta = 0
    /\ positions_t1 = positions_t2
    /\ mig_error = TimeError

----------------------------------------------------------------------------
(* Claims about analyze_migration_template *)

\* Indices of the pairs whose curvature and rate are both defined.
DefinedPairs ==
    {k \in 1..Len(an_curvatures) : an_curvatures[k] # NaN /\ an_rates[k] # NaN}

RECURSIVE SumOver(_, _)
SumOver(S, a) ==
    IF S = {} THEN 0
    ELSE LET k == CHOOSE x \in S : TRUE IN a[k] + SumOver(S \ {k}, a)

RECURSIVE SumSqOver(_, _)
SumSqOver(S, a) ==
    IF S = {} THEN 0
    ELSE LET k == CHOOSE x \in S : TRUE IN a[k] * a[k] + SumSqOver(S \ {k}, a)

\* The curvatures of the defined pairs, as an array.
DefinedCurvatures ==
    MaskSelect(an_curvatures, [k \in 1..Len(an_curvatures) |-> k \in DefinedPairs])

\* 100 * bin_count * (lower bound of bin k), k = 1..bin_count + 1: equal
\* widths from the 5th to the 95th percentile of the defined curvatures.
LowerBound(k) ==
    LET p5  == Percentile100(DefinedCurvatures, 5)
        p95 == Percentile100(DefinedCurvatures, 95)
    IN  bin_count * p5 + (k - 1) * (p95 - p5)

\* The defined pairs whose curvature lies in [lower_k, upper_k).
BinMembers(k) ==
    IF DefinedPairs = {} THEN {}
    ELSE {i \in DefinedPairs :
            /\ LowerBound(k) <= 100 * bin_count * an_curvatures[i]
            /\ 100 * bin_count * an_curvatures[i] < LowerBound(k + 1)}

\* C17: the three returned sequences have length bin_count; bin k holds the
\* mean and the population standard deviation of exactly the rates of the
\* defined pairs whose curvature lies in [lower_k, upper_k), so a pair is
\* counted in at most one bin and a pair at or above the 95th percentile or
\* below the 5th in none; a bin that receives no pair has mean = std = 0,
\* never NaN.
C17_HalfOpenBins ==
    an_pc = "returned"
        => /\ Len(template.bin_centers) = bin_count
           /\ Len(template.mean_rates) = bin_count
           /\ Len(template.std_rates) = bin_count
           /\ \A k \in 1..bin_count :
                 LET members == BinMembers(k)
                     m       == Cardinality(members)
                     mean    == template.mean_rates[k]
                     std     == template.std_rates[k]
                 IN  /\ mean.d > 0 /\ std.d > 0
                     /\ mean.n * m = mean.d * SumOver(members, an_rates)
                     /\ std.n * m * m =
                            std.d * (m * SumSqOver(members, an_rates)
                                       - SumOver(members, an_rates)
                                           * SumOver(members, an_rates))
                     /\ (m = 0) => (mean.n = 0 /\ std.n = 0)
           /\ \A i \in DefinedPairs :
                 Cardinality({k \in 1..bin_count : i \in BinMembers(k)}) <= 1

C17_Witness ==
    /\ an_pc = "returned"
    /\ bin_count >= 2
    /\ \E k \in 1..bin_count : template.std_rates[k].n > 0
    /\ \E k \in 1..bin_count : BinMembers(k) = {} /\ template.mean_rates[k].n = 0
    /\ \E i \in DefinedPairs : \A k \in 1..bin_count : i \notin BinMembers(k)

----------------------------------------------------------------------------
(* Claims about compare_regulated_unregulated *)

Compared == cmp_pc = "returned"

\* r > 0.8 for a correlation kept as (sign, square)
AboveEightTenths(r) == ~r.nan /\ r.sign = 1 /\ 25 * r.sq.n > 16 * r.sq.d

\* Both populations have the same curvature values and noise-free rates
\* rate = kr * curvature (regulated), rate = ku * curvature (unregulated).
SameLinearTemplate(kr, ku) ==
    /\ regulated_curvatures = unregulated_curvatures
    /\ \A i \in 1..Len(regulated_curvatures) :
          cmp_regulated_rates[i] = kr * regulated_curvatures[i]
    /\ \A i \in 1..Len(unregulated_curvatures) :
          cmp_unregulated_rates[i] = ku * unregulated_curvatures[i]

\* q = kr / ku up to the epsilon, for q = num / (den + 1e-10) with den > 0
IsRatio(q, kr, ku) ==
    /\ q.den.n > 0
    /\ q.num.n * q.den.d * ku = q.den.n * q.num.d * kr

\* The per-bin mean rates are not all equal.
Varies(means) == \E i, j \in 1..Len(means) : means[i] # means[j]

\* C14 (as stated): for every two populations with identical curvature
\* values and rates k * curvature, k_regulated and k_unregulated positive,
\* template_correlation > 0.8 and rate_suppression_factor is
\* k_regulated / k_unregulated within tolerance.
C14_LinearTemplatesAlwaysCorrelate ==
    Compared =>
        \A kr, ku \in 1..MaxSlope :
            SameLinearTemplate(kr, ku)
                => /\ AboveEightTenths(comparison.template_correlation)
                   /\ IsRatio(comparison.rate_suppression_factor, kr, ku)

\* C14 (amended): for such populations template_correlation > 0.8 whenever
\* the per-bin mean rates are not all equal, and is NaN when they are all
\* equal (a single bin, or no pair with a non-zero rate in any bin);
\* rate_suppression_factor is k_regulated / k_unregulated within tolerance
\* whenever the mean of the unregulated per-bin means is positive, and 0
\* otherwise.
C14_LinearTemplatesCorrelateWhenBinsVary ==
    Compared =>
        \A kr, ku \in 1..MaxSlope :
            SameLinearTemplate(kr, ku)
                => LET r == comparison.template_correlation
                       q == comparison.rate_suppression_factor
                       means == comparison.unregulated_mean_rates
                   IN  /\ Varies(means) => AboveEightTenths(r)
                       /\ ~Varies(means) => r.nan
                       /\ q.den.n > 0 => IsRatio(q, kr, ku)
                       /\ q.den.n = 0 => (q.num.n = 0 /\ q.eps)

C14_Witness ==
    /\ Compared
    /\ SameLinearTemplate(1, 2)
    /\ Varies(comparison.unregulated_mean_rates)
    /\ AboveEightTenths(comparison.template_correlation)
    /\ IsRatio(comparison.rate_suppression_factor, 1, 2)

\* The pairs of a population without NaN whose curvature lies in bin k.
MembersOf(c, bins, k) ==
    LET p5  == Percentile100(c, 5)
        p95 == Percentile100(c, 95)
    IN  {i \in 1..Len(c) :
            /\ bins * p5 + (k - 1) * (p95 - p5) <= 100 * bins * c[i]
            /\ 100 * bins * c[i] < bins * p5 + k * (p95 - p5)}

\* The sum over all bins of the per-bin mean rate, an empty bin counting 0.
SumOfBinMeans(c, r, bins) ==
    RatSum([k \in 1..bins |->
              LET members == MembersOf(c, bins, k)
              IN  IF members = {} THEN Rat(0, 1)
                  ELSE Rat(SumOver(members, r), Cardinality(members))])

\* x = s / bins
IsMeanOfBins(x, s, bins) == x.d > 0 /\ x.n * s.d * bins = s.n * x.d

\* C15: rate_suppression_factor is the mean over all bin_count bins (empty
\* bins counted as 0) of the regulated per-bin mean rates, divided by the
\* same mean for the unregulated population plus 1e-10; the regulated
\* population is the numerator.
C15_SuppressionIsRegulatedOverUnregulated ==
    Compared =>
        LET q == comparison.rate_suppression_factor
        IN  /\ q.eps
            /\ IsMeanOfBins(q.num,
                            SumOfBinMeans(regulated_curvatures,
                                          cmp_regulated_rates, cmp_bin_count),
                            cmp_bin_count)
            /\ IsMeanOfBins(q.den,
                            SumOfBinMeans(unregulated_curvatures,
                                          cmp_unregulated_rates, cmp_bin_count),
                            cmp_bin_count)

C15_Witness ==
    /\ Compared
    /\ comparison.rate_suppression_factor.num.n > 0
    /\ comparison.rate_suppression_factor.den.n > 0
    /\ comparison.rate_suppression_factor.num # comparison.rate_suppression_factor.den
    /\ \E k \in 1..cmp_bin_count :
          MembersOf(regulated_curvatures, cmp_bin_count, k) = {}
    /\ \E k \in 1..cmp_bin_count :
          MembersOf(regulated_curvatures, cmp_bin_count, k) # {}

\* normalized is means divided by (the maximum of means + 1e-10).
NormalizedByOwnMax(normalized, means) ==
    /\ Len(normalized) = Len(means)
    /\ \A i \in 1..Len(means) :
          /\ normalized[i].num = means[i]
          /\ normalized[i].eps
          /\ \A j \in 1..Len(means) : RatLeq(means[j], normalized[i].den)
          /\ \E j \in 1..Len(means) : means[j] = normalized[i].den

\* A quotient x / (y + eps) that is the number 0: x = 0 and the divisor
\* is not zero.
IsZeroQuotient(q) == q.num = Rat(0, 1) /\ (q.eps \/ q.den.n # 0)

AllZero(a) == \A i \in 1..Len(a) : a[i] = 0

\* C16: each normalized template is the population's per-bin mean rates
\* divided by that population's own maximum plus 1e-10; when every rate of
\* a population is zero the call returns (no division error) and that
\* population's normalized template is all zeros.
C16_NormalizationNeverDividesByZero ==
    /\ cmp_pc # "ready" /\ cmp_pc # "idle"
         => ((AllZero(cmp_regulated_rates) \/ AllZero(cmp_unregulated_rates))
                => Compared)
    /\ Compared =>
         /\ NormalizedByOwnMax(comparison.regulated_template_normalized,
                                comparison.regulated_mean_rates)
         /\ NormalizedByOwnMax(comparison.unregulated_template_normalized,
                                comparison.unregulated_mean_rates)
         /\ AllZero(cmp_regulated_rates)
               => \A i \in 1..cmp_bin_count :
                     IsZeroQuotient(comparison.regulated_template_normalized[i])
         /\ AllZero(cmp_unregulated_rates)
               => \A i \in 1..cmp_bin_count :
                     IsZeroQuotient(comparison.unregulated_template_normalized[i])

C16_Witness ==
    /\ Compared
    /\ AllZero(cmp_regulated_rates)
    /\ \A i \in 1..cmp_bin_count :
          IsZeroQuotient(comparison.regulated_template_normalized[i])
    /\ \E i \in 1..cmp_bin_count :
          comparison.unregulated_template_normalized[i].num.n > 0

----------------------------------------------------------------------------
(* Claims about the length check of analyze_migration_template *)

AnalyzeFinished == an_pc = "returned" \/ an_pc = "raised"

LengthsDiffer == Len(an_curvatures) # Len(an_rates)

\* C21 (as stated): whenever the two sequences differ in length the call
\* fails with the error kind LengthMismatchError.
C21_LengthMismatchErrorKind ==
    (AnalyzeFinished /\ LengthsDiffer)
        => (an_pc = "raised" /\ an_error = "LengthMismatchError")

\* C21 (amended): whenever the two sequences differ in length the call
\* raises the built-in ValueError and returns nothing; the check is on the
\* raw inputs, so it also wins when every pair would have been dropped as
\* undefined; a call on sequences of equal length never raises ValueError.
C21_LengthMismatchRaisesValueError ==
    AnalyzeFinished =>
        /\ LengthsDiffer
              => (an_pc = "raised" /\ an_error = "ValueError"
                    /\ template = NoTemplate)
        /\ ~LengthsDiffer => an_error # "ValueError"

\* A mismatch where every element is undefined: the length check still wins.
C21_Witness ==
    /\ an_pc = "raised"
    /\ an_error = "ValueError"
    /\ LengthsDiffer
    /\ \A k \in 1..Len(an_curvatures) : an_curvatures[k] = NaN
    /\ \A k \in 1..Len(an_rates) : an_rates[k] = NaN

----------------------------------------------------------------------------
(* Claims about collinear input of calculate_curvature *)

\* Every three points of the sequence lie on one line.
Collinear(pos) ==
    \A a, b, c \in 1..Len(pos) :
        (pos[b][1] - pos[a][1]) * (pos[c][2] - pos[a][2])
            = (pos[c][1] - pos[a][1]) * (pos[b][2] - pos[a][2])

\* C22: for every collinear point sequence of length >= window_size,
\* repeated points included, the returned curvature is exactly 0 at every
\* index, interior and edge.
C22_CollinearIsZeroEverywhere ==
    (curv_pc = "returned" /\ Collinear(positions))
        => /\ Len(curvatures) = Len(positions)
           /\ \A k \in 1..Len(curvatures) : curvatures[k] = Zero

\* A collinear sequence with a repeated point, two distinct points and an
\* interior index.
C22_Witness ==
    /\ curv_pc = "returned"
    /\ Collinear(positions)
    /\ Len(positions) > window_size
    /\ \E a, b \in 1..Len(positions) : a # b /\ positions[a] = positions[b]
    /\ \E a, b \in 1..Len(positions) : positions[a] # positions[b]
    /\ \A k \in 1..Len(curvatures) : curvatures[k] = Zero

----------------------------------------------------------------------------
(* Claims about prepare_lme_data *)

Prepared == prep_pc = "returned"

\* Input row k (1-based) has every field defined; an argument left None
\* contributes the defined value 0.
InputRowDefined(k) ==
    /\ ~IsNaN(prep_curvatures[k])
    /\ ~IsNaN(prep_rates[k])
    /\ ~IsNaN(regulation_status[k])
    /\ reach_ids.given => ~IsNaN(reach_ids.values[k])
    /\ time_periods.given => ~IsNaN(time_periods.values[k])

\* x is the number a * b.
IsProduct(x, a, b) == ~IsNaN(x) /\ x.n * a.d * b.d = a.n * b.n * x.d

\* C23: every returned row has no undefined field and has
\* curvature_x_regulated equal to the product curvature * regulated of the
\* same row; the returned rows are exactly the input rows whose fields are
\* all defined, in their original order.
C23_RowsDefinedWithExactInteraction ==
    Prepared =>
        /\ \A k \in 1..Len(prep_df) :
              LET row == prep_df[k]
              IN  /\ ~IsNaN(row.curvature)
                  /\ ~IsNaN(row.migration_rate)
                  /\ ~IsNaN(row.regulated)
                  /\ ~IsNaN(row.reach_id)
                  /\ ~IsNaN(row.time_period)
                  /\ ~IsNaN(row.curvature_x_regulated)
                  /\ IsProduct(row.curvature_x_regulated, row.curvature,
                               row.regulated)
                  /\ row.curvature = prep_curvatures[row.index + 1]
                  /\ row.migration_rate = prep_rates[row.index + 1]
                  /\ row.regulated = regulation_status[row.index + 1]
        /\ {prep_df[k].index : k \in 1..Len(prep_df)}
              = {j - 1 : j \in {i \in 1..Len(prep_curvatures) : InputRowDefined(i)}}
        /\ \A k \in 1..(Len(prep_df) - 1) : prep_df[k].index < prep_df[k + 1].index

----------------------------------------------------------------------------
(* Claims about the reproducibility of data_generator *)

GenerateReturned == last_call.kind = "generate" /\ gen_pc = "returned"

\* C24: a call of generate_migration_data with a non-null random_seed
\* returns exactly the curvatures, migration rates and positions that the
\* first call with the same arguments returned, whatever calls and draws
\* happened before or between them.
C24_SameSeedSameData ==
    (GenerateReturned /\ gen_args.random_seed # NoSeed)
        => /\ gen_args \in DOMAIN first_generated
           /\ gen_result.curvatures = first_generated[gen_args].curvatures
           /\ gen_result.migration_rates
                 = first_generated[gen_args].migration_rates
           /\ gen_result.positions_t1 = first_generated[gen_args].positions_t1
           /\ gen_result.positions_t2 = first_generated[gen_args].positions_t2
           /\ gen_result = first_generated[gen_args]

\* A seeded call repeated after an unseeded call and a channel call were
\* made.
C24_Witness ==
    /\ GenerateReturned
    /\ gen_args.random_seed # NoSeed
    /\ last_call.repeated
    /\ first_channel # <<>>
    /\ \E a \in DOMAIN first_generated : a.random_seed = NoSeed
    /\ gen_result = first_generated[gen_args]
    /\ Len(gen_result.curvatures) > 0

\* C25: no call leaves ambient state behind: a generate_synthetic_channel
\* call and an unseeded generate_migration_data call return what the first
\* call with the same arguments returned, whichever calls preceded them.
C25_NoAmbientState ==
    /\ last_call.kind = "channel"
          => channel_result = first_channel[channel_args]
    /\ (GenerateReturned /\ gen_args.random_seed = NoSeed)
          => gen_result = first_generated[gen_args]

----------------------------------------------------------------------------
(* Claims about the output of generate_migration_data *)

Generated == gen_pc = "returned"

\* The number of points marked regulated.
RegulatedPoints == SeqSum(gen_result.regulation_status)

\* The reaches (0-based) whose first point is marked regulated.
RegulatedReaches ==
    {i \in 0..(gen_args.n_reaches - 1) :
        gen_result.regulation_status[i * gen_args.points_per_reach + 1] = 1}

\* C26: for n_reaches >= 10 and a requested fraction in [0, 1] (in tenths),
\* the fraction of reaches, and of points, marked regulated is within less
\* than 0.1 of the requested one, the number of regulated reaches being the
\* integer part of n_reaches * regulated_fraction.
C26_RegulatedFractionWithinTenth ==
    (Generated /\ gen_args.n_reaches >= 10)
        => LET n == gen_args.n_reaches
               f == gen_args.regulated_fraction
               r == Cardinality(RegulatedReaches)
               total == Len(gen_result.regulation_status)
           IN  /\ 10 * r <= n * f /\ n * f < 10 * (r + 1)
               /\ Abs(10 * r - n * f) < n
               /\ RegulatedPoints = r * gen_args.points_per_reach
               /\ total > 0
               /\ Abs(10 * RegulatedPoints - total * f) < total

\* The product n_reaches * regulated_fraction is not whole: 11 reaches, 0.5.
C26_Witness ==
    /\ Generated
    /\ gen_args.n_reaches >= 10
    /\ (gen_args.n_reaches * gen_args.regulated_fraction) % 10 # 0
    /\ 10 * Cardinality(RegulatedReaches)
          < gen_args.n_reaches * gen_args.regulated_fraction
    /\ gen_result.regulation_status[1] = 0
    /\ RegulatedPoints > 0

\* C27: every returned migration rate is >= 0, whatever the slope, the
\* suppression factor, the noise level and the seed.
C27_RatesNonNegative ==
    Generated =>
        /\ Len(gen_result.migration_rates)
              = gen_args.n_reaches * gen_args.points_per_reach
        /\ \A k \in 1..Len(gen_result.migration_rates) :
              gen_result.migration_rates[k] >= 0

\* Noise has driven a positive rate to the clip, and a negative slope too.
C27_Witness ==
    /\ Generated
    /\ gen_args.noise_level > 0
    /\ \E k \in 1..Len(gen_result.migration_rates) :
          /\ gen_result.migration_rates[k] = 0
          /\ gen_args.curvature_migration_slope > 0
          /\ gen_result.regulation_status[k] = 0
    /\ \E k \in 1..Len(gen_result.migration_rates) :
          gen_result.migration_rates[k] > 0

\* C29: every per-point array has n_reaches * points_per_reach entries;
\* point k belongs to reach (k - 1) div points_per_reach, so the reach ids
\* are 0 .. n_reaches - 1, contiguous, with points_per_reach points each;
\* all points of a reach carry one regulation status.
C29_RegulationIsPerReach ==
    Generated =>
        LET n == gen_args.n_reaches
            p == gen_args.points_per_reach
            d == gen_result
        IN  /\ Len(d.curvatures) = n * p
            /\ Len(d.migration_rates) = n * p
            /\ Len(d.regulation_status) = n * p
            /\ Len(d.reach_ids) = n * p
            /\ Len(d.time_periods) = n * p
            /\ Len(d.positions_t1) = n * p
            /\ Len(d.positions_t2) = n * p
            /\ \A k \in 1..(n * p) : d.reach_ids[k] = (k - 1) \div p
            /\ \A i \in 0..(n - 1) :
                  Cardinality({k \in 1..(n * p) : d.reach_ids[k] = i}) = p
            /\ \A j, k \in 1..(n * p) :
                  d.reach_ids[j] = d.reach_ids[k]
                      => d.regulation_status[j] = d.regulation_status[k]
            /\ \A k \in 1..(n * p) : d.regulation_status[k] \in {0, 1}

C29_Witness ==
    /\ Generated
    /\ gen_args.n_reaches >= 3
    /\ gen_args.points_per_reach >= 2
    /\ \E j, k \in 1..Len(gen_result.regulation_status) :
          /\ j < k
          /\ gen_result.regulation_status[j] = 0
          /\ gen_result.regulation_status[k] = 1
    /\ \E j, k \in 1..Len(gen_result.regulation_status) :
          /\ j < k
          /\ gen_result.regulation_status[j] = 1
          /\ gen_result.regulation_status[k] = 0

----------------------------------------------------------------------------
(* Claims about the order of the two attempts of fit_lme_model *)

PrimarySucceeded ==
    /\ fit_pc = "returned"
    /\ primary_outcome \in {"converged", "not_converged"}
    /\ result.model = "MixedLM"
    /\ ols_outcome = ""
    /\ fit_log = <<>>
    /\ fit_raised = ""

FallbackUsed ==
    /\ fit_pc = "returned"
    /\ PrimaryRaised
    /\ ols_outcome = "ok"
    /\ result.model = "OLS"
    /\ fit_raised = ""

BothFailed ==
    /\ fit_pc = "raised"
    /\ PrimaryRaised
    /\ FallbackRaised
    /\ fit_raised = ols_outcome
    /\ result = NoResult

\* The OLS attempt runs in this step.
OLSAttempted == ols_outcome' # ols_outcome

\* C28: the OLS fit is attempted only after the mixed-effects attempt has
\* raised, and at most once; a call ends in exactly one of the outcomes
\* primary-succeeded (the mixed-effects result, OLS never run, nothing
\* printed), fallback-used and both-failed.
C28_AttemptThenFallback ==
    /\ [][OLSAttempted
            => (fit_pc = "except" /\ PrimaryRaised /\ ols_outcome = "")]_vars
    /\ [](FitFinished =>
            /\ PrimarySucceeded \/ FallbackUsed \/ BothFailed
            /\ ~(PrimarySucceeded /\ FallbackUsed)
            /\ ~(PrimarySucceeded /\ BothFailed)
            /\ ~(FallbackUsed /\ BothFailed))
    /\ [](primary_outcome \in {"converged", "not_converged"}
            => (ols_outcome = "" /\ fit_log = <<>>))

C28_Witness ==
    /\ BothFailed
    /\ primary_outcome = "LinAlgError"
    /\ ols_outcome = "ValueError"
    /\ Len(fit_log) = 2

----------------------------------------------------------------------------
(* Claims about the independence of the flags of interpret_results *)

\* Summaries over the rows other than name: each absent, or one of a few
\* rows that turn the other flags on and off.
OtherRows(name) ==
    UNION {[present -> {[coefficient |-> -1, p_value |-> 0],
                        [coefficient |-> 1, p_value |-> 1000],
                        [coefficient |-> NaN, p_value |-> NaN]}] :
           present \in SUBSET (HypothesisRows \ {name})}

\* The summary that agrees with summary_df on the row name and has the rows
\* of other elsewhere.
WithOtherRows(name, other) ==
    [r \in (DOMAIN summary_df \cap {name}) \cup DOMAIN other |->
        IF r = name THEN summary_df[name] ELSE other[r]]

\* C30: the flag of a predictor is the same for every summary that agrees
\* with the given one on that predictor's row, whatever the other rows are
\* (present, absent or changed); the summary passed in is not modified.
C30_FlagsDependOnOwnRow ==
    /\ [](interp_pc = "returned"
            => \A name \in HypothesisRows :
                 \A other \in OtherRows(name) :
                    LET flag == HypothesisKeys(name)[1]
                        twin == interpret_results(WithOtherRows(name, other))
                    IN  /\ flag \in DOMAIN interpretation <=> flag \in DOMAIN twin
                        /\ flag \in DOMAIN interpretation
                              => interpretation[flag] = twin[flag])
    /\ [][summary_df' = summary_df]_vars

\* All three flags present, with rates suppressed and the template
\* invariant.
C30_Witness ==
    /\ interp_pc = "returned"
    /\ DOMAIN summary_df = HypothesisRows
    /\ interpretation["rates_suppressed"]
    /\ interpretation["template_invariant"]
    /\ ~interpretation["curvature_predicts_migration"]

====
